---- MODULE Spec2Model ----
(***************************************************************************)
(* ClickUp -> Telegram webhook relay (src/main.py).                        *)
(*                                                                         *)
(* The specifications share the module's variables:                        *)
(*   SpecRoute  get_all_chat_ids_from_tags applied to bounded tag lists    *)
(*   SpecSend   one call of send_to_multiple_chats with its threads        *)
(*   Spec       one run of clickup_webhook against the ClickUp API         *)
(*   SpecRaw    the same on payloads that may hold a malformed item        *)
(*   SpecCache  a sequence of get_task_info calls, cache flag either way   *)
(*   SpecStats  analyze_tasks called twice on one task list                *)
(*   SpecReport the per-user rows of the two report renderers              *)
(*   SpecTrigger one request to a scheduler endpoint, GET or HEAD         *)
(*                                                                         *)
(* Spec keeps the handler's outbound calls (get_task_info,                 *)
(* send_to_multiple_chats, backup_to_sheet) in the log `calls`, in program *)
(* order; what one send_to_multiple_chats call does with its threads is    *)
(* SpecSend. The task API and the clock are the environment: every         *)
(* get_task_info may fail or return any record, and every clock reading    *)
(* may be later than the one before.                                       *)
(*                                                                         *)
(* Text is modelled as sequences of one-character strings so that          *)
(* str.lower() and the `in` substring test are computed, not assumed.      *)
(* Instants are integers in milliseconds, relative to an origin chosen so  *)
(* that every instant of a run is positive (as epoch milliseconds are).    *)
(***************************************************************************)
EXTENDS Integers, Sequences, FiniteSets, TLC

VARIABLES
    CHAT_ID,          \* os.getenv("CHAT_ID"), read once at start-up
    tags,             \* SpecRoute: argument of get_all_chat_ids_from_tags
    result,           \* SpecRoute: the list it returned
    rpc,              \* SpecRoute: "call" before the call, "ret" after it
    now,              \* the wall clock, in milliseconds
    chat_ids,         \* SpecSend: argument of send_to_multiple_chats
    mpc,              \* SpecSend: where the calling thread is: "spawn", "join", "returned"
    mi,               \* SpecSend: index of the loop the calling thread is in
    jleft,            \* SpecSend: seconds left of the current join(timeout=3)
    outer,            \* SpecSend: per destination, the thread running send_message
    inner,            \* SpecSend: per destination, the thread running _send
    post,             \* SpecSend: per destination, the HTTP request _send makes
    attempts,         \* SpecSend: the requests.post calls made so far, in order
    CACHE_ENABLED,    \* the module flag of line 45
    task_cache,       \* _task_cache[task_id]: the record cached for the task, if any
    event,            \* Spec: data["event"] of the inbound webhook; SpecTrigger: the request
    history_items,    \* Spec: data["history_items"]
    hpc,              \* Spec: where clickup_webhook is; SpecTrigger: where the endpoint is
    hi,               \* Spec: index of the history item the current loop is at
    task_data,        \* Spec: the record the initial get_task_info returned
    target_chat_ids,  \* Spec: destinations computed from task_data's tags
    is_overdue,       \* Spec: check_overdue(due_date) evaluated at line 1155
    calls,            \* Spec: the outbound calls made so far, in order
    response,         \* Spec: HTTP status returned to the inbound caller, 0 before
    tasks,            \* SpecStats: argument of analyze_tasks; SpecTrigger: the tasks fetched
    stats,            \* SpecStats: the stats dict being built; SpecReport: the one rendered
    apc,              \* SpecStats: where analyze_tasks is; SpecReport: where the renderers are
    ai,               \* SpecStats: index of the task the loop of line 351 is at
    read_at,          \* SpecStats: per task counted, the clock reading of line 367
    stats1,           \* SpecStats: the stats the first of two calls returned
    runs,             \* SpecStats: how many calls of analyze_tasks have returned
    report            \* SpecReport: what the two renderers produced

routeVars == <<tags, result, rpc>>

sendVars == <<chat_ids, mpc, mi, jleft, outer, inner, post, attempts>>

cacheVars == <<CACHE_ENABLED, task_cache>>

hookVars == <<event, history_items, hpc, hi, task_data, target_chat_ids,
              is_overdue, calls, response>>

statsVars == <<tasks, stats, apc, ai, read_at, stats1, runs, report>>

vars == <<CHAT_ID, routeVars, now, sendVars, cacheVars, hookVars, statsVars>>

----------------------------------------------------------------------------
(* Bounds *)

MaxTags == 2
MaxChats == 2
MaxItems == 2

----------------------------------------------------------------------------
(* Text *)

UpperAlpha == <<"A","B","C","D","E","F","G","H","I","J","K","L","M",
                "N","O","P","Q","R","S","T","U","V","W","X","Y","Z","E-ACUTE">>
LowerAlpha == <<"a","b","c","d","e","f","g","h","i","j","k","l","m",
                "n","o","p","q","r","s","t","u","v","w","x","y","z","e-acute">>

\* str.lower() on one character ("E-ACUTE" and "e-acute" stand for the
\* accented letter of "achevé")
LowerChar(c) ==
    IF \E i \in DOMAIN UpperAlpha : UpperAlpha[i] = c
    THEN LowerAlpha[CHOOSE i \in DOMAIN UpperAlpha : UpperAlpha[i] = c]
    ELSE c

\* str.lower()
lower(s) == [i \in 1..Len(s) |-> LowerChar(s[i])]

\* Python's  k in s  on strings
Contains(k, s) ==
    \E i \in 0..(Len(s) - Len(k)) : SubSeq(s, i + 1, i + Len(k)) = k

kwContent   == <<"c","o","n","t","e","n","t">>
kwDev       == <<"d","e","v">>
kwDeveloper == <<"d","e","v","e","l","o","p","e","r">>
kwAdmin     == <<"a","d","m","i","n">>

\* Tag names the bounded inputs are drawn from
TagNames ==
    { kwContent, kwDev, kwDeveloper, kwAdmin,
      <<"A","D","M","I","N">>,
      <<"C","o","n","t","e","n","t">>,
      <<"d","e","v","i","c","e">>,
      <<"c","o","n","t","e","n","t","-","a","d","m","i","n">>,
      <<"b","u","g">>,
      <<"a","d","m">>,
      <<>> }

----------------------------------------------------------------------------
(* Configuration *)

ContentChat == "-1003036322284"
DevChat     == "-1002896048137"
AdminChat   == "-1003086591861"

\* Values of the CHAT_ID environment variable the model tries: its own chat,
\* the same chat as the content group, and unset (None).
ChatIdEnv == {"-1000000000001", ContentChat, "None"}

TAG_TO_CHAT_ID(key) ==
    CASE key = "content" -> ContentChat
      [] key = "dev"     -> DevChat
      [] key = "admin"   -> AdminChat
      [] key = "default" -> CHAT_ID

----------------------------------------------------------------------------
(* Routing resolver *)

\* A tag as it arrives in the task record: a dict with a name, a dict
\* without one, a bare string, or a value of another type.
Tag ==
    [kind : {"dict", "str"}, name : TagNames]
      \cup {[kind |-> "dict_noname", name |-> <<>>],
            [kind |-> "other", name |-> <<>>]}

\* Tag lists; present = FALSE is a missing value (None)
BoundedSeq(S, n) == UNION {[1..k -> S] : k \in 0..n}

TagLists ==
    {[present |-> TRUE, list |-> l] : l \in BoundedSeq(Tag, MaxTags)}
      \cup {[present |-> FALSE, list |-> <<>>]}

\* tag_names of lines 118-123: lower-cased names, other types skipped
RECURSIVE tag_names(_)
tag_names(l) ==
    IF l = <<>> THEN <<>>
    ELSE LET t == Head(l)
             rest == tag_names(Tail(l))
         IN CASE t.kind = "dict"        -> <<lower(t.name)>> \o rest
              [] t.kind = "dict_noname" -> <<lower(<<>>)>> \o rest
              [] t.kind = "str"         -> <<lower(t.name)>> \o rest
              [] OTHER                  -> rest

\* Mutant: an if/elif chain, so a tag name adds its first match only
ChatsOfTagName_FirstMatch(n) ==
    IF Contains(kwContent, n) THEN {TAG_TO_CHAT_ID("content")}
    ELSE IF Contains(kwDev, n) \/ Contains(kwDeveloper, n) THEN {TAG_TO_CHAT_ID("dev")}
    ELSE IF Contains(kwAdmin, n) THEN {TAG_TO_CHAT_ID("admin")}
    ELSE {}

\* The destinations one tag name adds (lines 129-136): three independent tests
ChatsOfTagName(n) ==
    (IF Contains(kwContent, n) THEN {TAG_TO_CHAT_ID("content")} ELSE {})
      \cup (IF Contains(kwDev, n) \/ Contains(kwDeveloper, n)
            THEN {TAG_TO_CHAT_ID("dev")} ELSE {})
      \cup (IF Contains(kwAdmin, n) THEN {TAG_TO_CHAT_ID("admin")} ELSE {})

\* Mutant: the earlier single-chat routing, returning at the first tag that matches
ChatIdSet_SingleChat(t) ==
    IF ~t.present \/ t.list = <<>>
    THEN {TAG_TO_CHAT_ID("default")}
    ELSE LET names == tag_names(t.list)
             hits == {i \in 1..Len(names) : ChatsOfTagName(names[i]) # {}}
         IN IF hits = {} THEN {TAG_TO_CHAT_ID("default")}
            ELSE LET first == CHOOSE i \in hits : \A j \in hits : i <= j
                 IN {CHOOSE c \in ChatsOfTagName(names[first]) : TRUE}

\* Mutant: the default is added only for an empty or missing tag list
ChatIdSet_NoFallback(t) ==
    IF ~t.present \/ t.list = <<>>
    THEN {TAG_TO_CHAT_ID("default")}
    ELSE LET names == tag_names(t.list)
         IN UNION {ChatsOfTagName(names[i]) : i \in 1..Len(names)}

\* The set chat_ids at line 142
ChatIdSet(t) ==
    IF ~t.present \/ t.list = <<>>
    THEN {TAG_TO_CHAT_ID("default")}
    ELSE LET names == tag_names(t.list)
             matched == UNION {ChatsOfTagName(names[i]) : i \in 1..Len(names)}
         IN IF matched = {} THEN {TAG_TO_CHAT_ID("default")} ELSE matched

\* list(set): every element once, in an order the hash seed decides
ListsOf(S) ==
    {l \in [1..Cardinality(S) -> S] : \A x \in S : \E i \in DOMAIN l : l[i] = x}

\* Every list get_all_chat_ids_from_tags may return for t
get_all_chat_ids_from_tags(t) == ListsOf(ChatIdSet(t))

----------------------------------------------------------------------------
(* SpecRoute: the resolver applied to every bounded tag list *)

NoResult == <<"unset">>

\* The dispatcher at rest (SpecRoute and Spec do not run its threads)
SendIdle ==
    /\ chat_ids = <<>>
    /\ mpc = "idle"
    /\ mi = 0
    /\ jleft = 0
    /\ outer = <<>>
    /\ inner = <<>>
    /\ post = <<>>
    /\ attempts = <<>>

\* A task record as far as the handler reads it: its tags and its due date
NoDue  == [kind |-> "none", ms |-> 0]
NoData == [tags |-> [present |-> FALSE, list |-> <<>>], due_date |-> NoDue]

NoCache == [present |-> FALSE, data |-> NoData, time |-> 0]

\* The webhook handler at rest (SpecRoute and SpecSend do not run it)
HookIdle ==
    /\ CACHE_ENABLED = FALSE
    /\ task_cache = NoCache
    /\ event = ""
    /\ history_items = <<>>
    /\ hpc = "idle"
    /\ hi = 0
    /\ task_data = NoData
    /\ target_chat_ids = <<>>
    /\ is_overdue = FALSE
    /\ calls = <<>>
    /\ response = 0

\* The report side at rest (only SpecStats and SpecReport run it)
NoBuckets == <<>>
NoStats == [total |-> 0, completed |-> 0, pending |-> 0, overdue |-> 0,
            unassigned |-> 0, in_progress |-> 0, by_user |-> NoBuckets,
            by_priority |-> [urgent |-> 0, high |-> 0, normal |-> 0, low |-> 0]]
NoReport == [text |-> <<>>, html |-> <<>>]

StatsIdle ==
    /\ tasks = <<>>
    /\ stats = NoStats
    /\ apc = "idle"
    /\ ai = 0
    /\ read_at = <<>>
    /\ stats1 = NoStats
    /\ runs = 0
    /\ report = NoReport

InitRoute ==
    /\ StatsIdle
    /\ CHAT_ID \in ChatIdEnv
    /\ tags \in TagLists
    /\ result = NoResult
    /\ rpc = "call"
    /\ now = 0
    /\ SendIdle
    /\ HookIdle

Route ==
    /\ rpc = "call"
    /\ result' \in get_all_chat_ids_from_tags(tags)
    /\ rpc' = "ret"
    /\ UNCHANGED <<CHAT_ID, statsVars, tags, now, sendVars, cacheVars, hookVars>>

NextRoute == Route

SpecRoute == InitRoute /\ [][NextRoute]_vars

----------------------------------------------------------------------------
(* Notification dispatcher: send_to_multiple_chats, send_message, _send *)

JoinTimeout == 3        \* thread.join(timeout=3), seconds
PostTimeout == 5        \* requests.post(..., timeout=5), seconds

\* What requests.post ends in and the seconds it takes: a 200 response within
\* join's timeout or beyond it, another response, an exception raised at
\* once (connection refused), the timeout exception.
PostResults ==
    { [outcome |-> "200",       seconds |-> 1],
      [outcome |-> "200",       seconds |-> JoinTimeout + 1],
      [outcome |-> "non200",    seconds |-> 1],
      [outcome |-> "exception", seconds |-> 0],
      [outcome |-> "timeout",   seconds |-> PostTimeout] }

\* A request: its outcome, the seconds it takes, the seconds it still needs
NoPost == [outcome |-> "none", seconds |-> 0, left |-> 0]

DestinationLists == BoundedSeq({ContentChat, DevChat}, MaxChats)

InitSend ==
    /\ StatsIdle
    /\ CHAT_ID \in {"-1000000000001"}
    /\ tags = [present |-> FALSE, list |-> <<>>]
    /\ result = NoResult
    /\ rpc = "idle"
    /\ now = 0
    /\ chat_ids \in DestinationLists
    /\ mpc = "spawn"
    /\ mi = 1
    /\ jleft = 0
    /\ outer = [k \in 1..Len(chat_ids) |-> "new"]
    /\ inner = [k \in 1..Len(chat_ids) |-> "new"]
    /\ post = [k \in 1..Len(chat_ids) |-> NoPost]
    /\ attempts = <<>>
    /\ HookIdle

\* Lines 191-195: one loop iteration creates and starts the thread of
\* destination mi.
SpawnThread ==
    /\ mpc = "spawn"
    /\ mi <= Len(chat_ids)
    /\ outer' = [outer EXCEPT ![mi] = "started"]
    /\ mi' = mi + 1
    /\ UNCHANGED <<cacheVars, hookVars, CHAT_ID, statsVars, routeVars, now, chat_ids, mpc, jleft, inner, post, attempts>>

\* Line 198: the spawn loop is over, the join loop is entered
BeginJoins ==
    /\ mpc = "spawn"
    /\ mi > Len(chat_ids)
    /\ mpc' = "join"
    /\ mi' = 1
    /\ jleft' = JoinTimeout
    /\ UNCHANGED <<cacheVars, hookVars, CHAT_ID, statsVars, routeVars, now, chat_ids, outer, inner, post, attempts>>

\* Lines 147-183 run by thread k: send_message creates the thread of _send,
\* starts it and returns, which ends thread k.
RunSendMessage(k) ==
    /\ outer[k] = "started"
    /\ inner' = [inner EXCEPT ![k] = "started"]
    /\ outer' = [outer EXCEPT ![k] = "dead"]
    /\ UNCHANGED <<cacheVars, hookVars, CHAT_ID, statsVars, routeVars, now, chat_ids, mpc, mi, jleft, post, attempts>>

\* Thread.is_alive() is false for the thread join() was called on: the
\* thread that ran send_message
ThreadIsDead(k) == outer[k] = "dead"

\* Lines 198-199: join(timeout=3) on thread mi returns when that thread is
\* dead or when the timeout has elapsed.
JoinThread ==
    /\ mpc = "join"
    /\ mi <= Len(chat_ids)
    /\ ThreadIsDead(mi) \/ jleft = 0
    /\ mi' = mi + 1
    /\ jleft' = JoinTimeout
    /\ UNCHANGED <<cacheVars, hookVars, CHAT_ID, statsVars, routeVars, now, chat_ids, mpc, outer, inner, post, attempts>>

\* After the last join send_to_multiple_chats returns
Return ==
    /\ mpc = "join"
    /\ mi > Len(chat_ids)
    /\ mpc' = "returned"
    /\ UNCHANGED <<cacheVars, hookVars, CHAT_ID, statsVars, routeVars, now, chat_ids, mi, jleft, outer, inner, post, attempts>>

\* Mutant: the sends share one failure flag, so no request is started once
\* an earlier one has failed
MayPost_UnlessOtherFailed(k) ==
    /\ inner[k] = "started"
    /\ \A j \in DOMAIN post : inner[j] = "dead" => post[j].outcome = "200"

\* Mutant: a destination that has had an attempt gets no second one
MayPost_OncePerDestination(k) ==
    /\ inner[k] = "started"
    /\ \A i \in DOMAIN attempts : attempts[i] # chat_ids[k]

\* _send of destination k may make its request: that depends on its own
\* thread only
MayPost(k) == inner[k] = "started"

\* Line 159: _send of destination k calls requests.post. What the request
\* ends in, and after how long, is the network's choice.
StartPost(k) ==
    /\ MayPost(k)
    /\ \E r \in PostResults :
          post' = [post EXCEPT ![k] = [outcome |-> r.outcome, seconds |-> r.seconds,
                                       left |-> r.seconds]]
    /\ inner' = [inner EXCEPT ![k] = "posting"]
    /\ attempts' = Append(attempts, chat_ids[k])
    /\ UNCHANGED <<cacheVars, hookVars, CHAT_ID, statsVars, routeVars, now, chat_ids, mpc, mi, jleft, outer>>

\* Lines 160-179: the request is over; its outcome is logged (success for
\* 200, error for anything else, the exception caught) and _send ends.
FinishPost(k) ==
    /\ inner[k] = "posting"
    /\ post[k].left = 0
    /\ inner' = [inner EXCEPT ![k] = "dead"]
    /\ UNCHANGED <<cacheVars, hookVars, CHAT_ID, statsVars, routeVars, now, chat_ids, mpc, mi, jleft, outer, post, attempts>>

\* join() is waiting for a live thread and its timeout has not elapsed
JoinWaits == mpc = "join" /\ mi <= Len(chat_ids) /\ ~ThreadIsDead(mi) /\ jleft > 0

\* One second passes while a request is in flight or a join waits, and
\* never past the instant a request in flight ends.
TickSend ==
    /\ JoinWaits \/ \E k \in DOMAIN inner : inner[k] = "posting"
    /\ \A k \in DOMAIN inner : inner[k] = "posting" => post[k].left > 0
    /\ post' = [k \in DOMAIN post |->
                   IF inner[k] = "posting"
                   THEN [post[k] EXCEPT !.left = post[k].left - 1]
                   ELSE post[k]]
    /\ jleft' = IF JoinWaits THEN jleft - 1 ELSE jleft
    /\ UNCHANGED <<cacheVars, hookVars, CHAT_ID, statsVars, routeVars, now, chat_ids, mpc, mi, outer, inner, attempts>>

NextSend ==
    \/ SpawnThread
    \/ BeginJoins
    \/ JoinThread
    \/ Return
    \/ \E k \in DOMAIN outer : RunSendMessage(k)
    \/ \E k \in DOMAIN inner : StartPost(k)
    \/ \E k \in DOMAIN inner : FinishPost(k)
    \/ TickSend

SpecSend == InitSend /\ [][NextSend]_vars


----------------------------------------------------------------------------
(* Task API client: get_task_info *)

HourMs == 3600 * 1000
Now0 == 72 * HourMs                 \* the handler's first clock reading (1155, 1160)
ClockStepMs == 1000                 \* time that may pass between two clock readings
CACHE_TTL == 60                     \* seconds a cached record is served

\* The clock readings possible after a reading of t
Advance(t) == {t, t + ClockStepMs}

Due(ms) == [kind |-> "ms", ms |-> ms]
BadDue  == [kind |-> "bad", ms |-> 0]         \* a due_date int() cannot parse

\* Due dates the task API answers with: none, unparsable, 3 h before the
\* first clock reading, at it, and 2 h, 24 h and 48 h after it
DueDates ==
    { NoDue, BadDue, Due(Now0 - 3 * HourMs), Due(Now0),
      Due(Now0 + 2 * HourMs), Due(Now0 + 24 * HourMs), Due(Now0 + 48 * HourMs) }

TagDict(n) == [kind |-> "dict", name |-> n]

\* Tag sets the task API answers with
HookTags ==
    { [present |-> TRUE, list |-> <<>>],
      [present |-> TRUE, list |-> <<TagDict(kwAdmin)>>],
      [present |-> TRUE, list |-> <<TagDict(kwContent), TagDict(kwDev)>>] }

TaskRecords == [tags : HookTags, due_date : DueDates]

\* Mutant: a record is served up to and including its 60th second
CacheHit_UpTo60(force_refresh) ==
    /\ CACHE_ENABLED
    /\ ~force_refresh
    /\ task_cache.present
    /\ now - task_cache.time <= CACHE_TTL * 1000

\* Lines 207-213: the cached record is served without a request
CacheHit(force_refresh) ==
    /\ CACHE_ENABLED
    /\ ~force_refresh
    /\ task_cache.present
    /\ now - task_cache.time < CACHE_TTL * 1000

\* Mutant: the record is stored whether or not the cache is enabled
get_task_info_StoresAlways(force_refresh) ==
    IF CacheHit(force_refresh)
    THEN {[ok |-> TRUE, data |-> task_cache.data, via |-> "cache", cache |-> task_cache]}
    ELSE {[ok |-> FALSE, data |-> NoData, via |-> "api", cache |-> task_cache]}
           \cup {[ok |-> TRUE, data |-> d, via |-> "api",
                  cache |-> [present |-> TRUE, data |-> d, time |-> now]] :
                    d \in TaskRecords}

\* Every way one call get_task_info(task_id, force_refresh) can end: the
\* record returned (ok = FALSE for None), whether a request was made, and
\* the cache afterwards.
get_task_info(force_refresh) ==
    IF CacheHit(force_refresh)
    THEN {[ok |-> TRUE, data |-> task_cache.data, via |-> "cache", cache |-> task_cache]}
    ELSE {[ok |-> FALSE, data |-> NoData, via |-> "api", cache |-> task_cache]}
           \cup {[ok |-> TRUE, data |-> d, via |-> "api",
                  cache |-> IF CACHE_ENABLED
                            THEN [present |-> TRUE, data |-> d, time |-> now]
                            ELSE task_cache] : d \in TaskRecords}

----------------------------------------------------------------------------
(* Time helpers *)

\* check_overdue (77-86) at clock reading t: False for no due date and when
\* the conversion raises
check_overdue(due, t) == due.kind = "ms" /\ t > due.ms

\* Status words, as character sequences
WORD_complete == <<"c","o","m","p","l","e","t","e">>
WORD_completed == <<"c","o","m","p","l","e","t","e","d">>
WORD_closed == <<"c","l","o","s","e","d">>
WORD_done == <<"d","o","n","e">>
WORD_acheve == <<"a","c","h","e","v","e-acute">>
WORD_in_progress == <<"i","n"," ","p","r","o","g","r","e","s","s">>
SPELL_Completed == <<"C","o","m","p","l","e","t","e","d">>
SPELL_CLOSED == <<"C","L","O","S","E","D">>
SPELL_ACHEVE == <<"A","C","H","E","V","E-ACUTE">>

\* Line 1259: the status words that mean done
DoneSynonyms ==
    { WORD_complete, WORD_completed, WORD_closed, WORD_done, WORD_acheve }

\* Mutant: "closed" left out of the list
IsDone_WithoutClosed(status) ==
    lower(status) \in {WORD_complete, WORD_completed, WORD_done, WORD_acheve}

\* new_status.lower() in [...]
IsDone(status) == lower(status) \in DoneSynonyms

\* Mutant: early decided on whole days left, late on whole hours
completion_status_Days(due, t) ==
    CASE due.kind = "none" -> "plain"
      [] due.kind = "bad"  -> "none"
      [] OTHER -> LET time_diff == due.ms - t
                  IN IF time_diff <= 0 THEN "late"
                     ELSE IF time_diff > 24 * HourMs THEN "early"
                     ELSE "on_time"

\* Lines 1263-1291 at clock reading t: which completion message variant is
\* chosen. "plain" is the variant without a due date; "none" is the empty
\* completion_status left when the date conversion raises.
completion_status(due, t) ==
    CASE due.kind = "none" -> "plain"
      [] due.kind = "bad"  -> "none"
      [] OTHER -> LET time_diff == due.ms - t
                  IN IF time_diff < 0 THEN "late"
                     ELSE IF time_diff >= 24 * HourMs THEN "early"
                     ELSE "on_time"

\* Lines 1319-1322: the on_time field of the audit row
on_time_status(due, overdue) ==
    IF due.kind = "none" THEN "Khong xac dinh"
    ELSE IF overdue THEN "Tre" ELSE "Dung han"

----------------------------------------------------------------------------
(* Webhook handler: clickup_webhook *)

Events == {"taskCreated", "taskUpdated", "taskDeleted", "taskCommentPosted",
           "taskPriorityUpdated"}

TagFields  == {"tag_added", "tag_removed"}

\* Mutant: no branch for due_date items
MainFields_WithoutDueDate == {"status", "assignee_add", "assignee_rem"}

MainFields == {"status", "assignee_add", "assignee_rem", "due_date"}

\* New statuses the status items carry: the five done words in several
\* spellings and one that is not done
StatusWords ==
    { WORD_complete, SPELL_Completed, SPELL_CLOSED, WORD_done, SPELL_ACHEVE,
      WORD_in_progress }

\* A history item: its field and, for a status item, after["status"]
Item(f, st) == [field |-> f, status |-> st]

Items ==
    {Item("status", w) : w \in StatusWords}
      \cup {Item(f, <<>>) : f \in {"tag_added", "tag_removed", "assignee_add",
                                    "assignee_rem", "due_date", "priority"}}

\* after["status"] of a status item that is JSON null, not a string
NullStatus == <<"null">>

\* History items of a payload that is not all well-formed: one status item
\* whose new status is null, and well-formed items of every branch
RawItems ==
    { Item("status", NullStatus), Item("status", WORD_done),
      Item("status", WORD_in_progress), Item("tag_added", <<>>),
      Item("tag_removed", <<>>), Item("due_date", <<>>) }

\* An outbound call as the log keeps it
Call(op, item, kind, to, variant, force, seen, at) ==
    [op |-> op, item |-> item, kind |-> kind, to |-> to, variant |-> variant,
     force |-> force, seen |-> seen, at |-> at]

\* A request to the task API (or a cache read) made for history item `item`
\* (0: the initial fetch), with what it returned
FetchCall(item, force, r) ==
    Call("fetch", item, r.via, <<>>, IF r.ok THEN "ok" ELSE "failed", force,
         r.data.tags, now)

\* One call of send_to_multiple_chats(msg, to)
SendCall(item, kind, to, variant, at) ==
    Call("send", item, kind, to, variant, FALSE, NoData.tags, at)

\* One call of backup_to_sheet(backup_info)
BackupCall(item, on_time, at) ==
    Call("backup", item, "row", <<>>, on_time, FALSE, NoData.tags, at)

\* A webhook arrives whose history items are drawn from S
InitHookWith(S) ==
    /\ StatsIdle
    /\ CHAT_ID = "-1000000000001"
    /\ tags = [present |-> FALSE, list |-> <<>>]
    /\ result = NoResult
    /\ rpc = "idle"
    /\ now = Now0
    /\ SendIdle
    /\ CACHE_ENABLED = FALSE
    /\ task_cache = NoCache
    /\ event \in Events
    /\ history_items \in BoundedSeq(S, IF event = "taskUpdated" THEN MaxItems ELSE 1)
    /\ hpc = "fetch"
    /\ hi = 0
    /\ task_data = NoData
    /\ target_chat_ids = <<>>
    /\ is_overdue = FALSE
    /\ calls = <<>>
    /\ response = 0

\* A webhook as ClickUp sends it
InitHook == InitHookWith(Items)

\* The first index >= i of a history item whose field is in F, or
\* Len(history_items) + 1
NextIdx(i, F) ==
    LET hits == {j \in i..Len(history_items) : history_items[j].field \in F}
    IN IF hits = {} THEN Len(history_items) + 1
       ELSE CHOOSE j \in hits : \A k \in hits : j <= k

\* Mutant: a single loop over the items, in list order
FromTagLoop_SinglePass(i) ==
    LET n == NextIdx(i, {"tag_added", "tag_removed", "status", "assignee_add",
                         "assignee_rem", "due_date"})
    IN IF n > Len(history_items) THEN <<"return", 0>>
       ELSE IF history_items[n].field \in {"tag_added", "tag_removed"} THEN <<"tags", n>>
       ELSE <<"fields", n>>

\* Where the taskUpdated branch continues once the first loop (1198) looks
\* for its next tag item from index i: that item, or the second loop's
\* (1247) first item, or the return
FromTagLoop(i) ==
    LET t == NextIdx(i, TagFields)
        m == NextIdx(1, MainFields)
    IN IF t <= Len(history_items) THEN <<"tags", t>>
       ELSE IF m <= Len(history_items) THEN <<"fields", m>>
       ELSE <<"return", 0>>

\* Where it continues once the second loop looks from index i
FromMainLoop(i) ==
    LET m == NextIdx(i, MainFields)
    IN IF m <= Len(history_items) THEN <<"fields", m>> ELSE <<"return", 0>>

\* Mutant: the first loop is left when a re-fetch fails
AfterTagAdded_ReturnsOnFailure(r, i) ==
    IF r.ok THEN FromTagLoop(i + 1) ELSE <<"return", 0>>

\* Lines 1209-1226: where the first loop continues after the tag_added item
\* i whose re-fetch returned r: the `if fresh_task_data:` has no else, the
\* loop goes on either way
AfterTagAdded(r, i) == FromTagLoop(i + 1)

\* Mutant: the initial fetch made with the default force_refresh=False
InitialForceRefresh_Default == FALSE

\* Line 1120: get_task_info(task_id, force_refresh=True)
InitialForceRefresh == TRUE

\* Mutant: a missing task answered as a server error
AfterFetchFailure_Error == [hpc |-> "done", response |-> 502]

\* Mutant: a missing task is notified like any other
AfterFetchFailure_Notifies == [hpc |-> "notify", response |-> 0]

\* Lines 1122-1124: return {"ok": True}, 200
AfterFetchFailure == [hpc |-> "done", response |-> 200]

\* Lines 1119-1167: the initial fetch; on None the handler answers 200 at
\* once, otherwise it computes the destinations and the overdue flag.
FetchTask ==
    /\ hpc = "fetch"
    /\ \E r \in get_task_info(InitialForceRefresh) :
          /\ calls' = Append(calls, FetchCall(0, InitialForceRefresh, r))
          /\ task_cache' = r.cache
          /\ IF ~r.ok
             THEN /\ hpc' = AfterFetchFailure.hpc
                  /\ response' = AfterFetchFailure.response
                  /\ UNCHANGED <<hi, task_data, target_chat_ids, is_overdue>>
             ELSE /\ task_data' = r.data
                  /\ target_chat_ids' \in get_all_chat_ids_from_tags(r.data.tags)
                  /\ is_overdue' = check_overdue(r.data.due_date, now)
                  /\ LET next == CASE event = "taskUpdated" -> FromTagLoop(1)
                                   [] event \in {"taskCreated", "taskDeleted",
                                                 "taskCommentPosted"} -> <<"notify", 0>>
                                   [] OTHER -> <<"return", 0>>
                     IN hpc' = next[1] /\ hi' = next[2]
                  /\ UNCHANGED response
    /\ UNCHANGED <<CHAT_ID, statsVars, routeVars, now, sendVars, CACHE_ENABLED, event, history_items>>

\* Lines 1171-1194, 1416-1429, 1431-1456: the one notification of a
\* taskCreated, taskDeleted or taskCommentPosted event
NotifyEvent ==
    /\ hpc = "notify"
    /\ calls' = Append(calls, SendCall(0, event, target_chat_ids, "", now))
    /\ hpc' = "return"
    /\ UNCHANGED <<CHAT_ID, statsVars, routeVars, now, sendVars, cacheVars, event, history_items,
                   hi, task_data, target_chat_ids, is_overdue, response>>

\* Lines 1201-1226: a tag_added item re-fetches the task and notifies the
\* destinations of the re-fetched tags; no notification when the re-fetch
\* fails. (Only the tags of the re-fetched record are read; its due date is
\* taken to be the one the initial fetch saw.)
TagAdded ==
    /\ hpc = "tags"
    /\ history_items[hi].field = "tag_added"
    /\ \E r \in get_task_info(TRUE) :
          /\ r.ok => r.data.due_date = task_data.due_date
          /\ task_cache' = r.cache
          /\ IF r.ok
             THEN \E new_chat_ids \in get_all_chat_ids_from_tags(r.data.tags) :
                     calls' = calls \o <<FetchCall(hi, TRUE, r),
                                         SendCall(hi, "tag_added", new_chat_ids, "", now)>>
             ELSE calls' = Append(calls, FetchCall(hi, TRUE, r))
          /\ hpc' = AfterTagAdded(r, hi)[1]
          /\ hi' = AfterTagAdded(r, hi)[2]
    /\ UNCHANGED <<CHAT_ID, statsVars, routeVars, now, sendVars, CACHE_ENABLED, event, history_items,
                   task_data, target_chat_ids, is_overdue, response>>

\* Lines 1228-1244: a tag_removed item notifies the destinations computed
\* from the initial fetch
TagRemoved ==
    /\ hpc = "tags"
    /\ history_items[hi].field = "tag_removed"
    /\ calls' = Append(calls, SendCall(hi, "tag_removed", target_chat_ids, "", now))
    /\ hpc' = FromTagLoop(hi + 1)[1]
    /\ hi' = FromTagLoop(hi + 1)[2]
    /\ UNCHANGED <<CHAT_ID, statsVars, routeVars, now, sendVars, cacheVars, event, history_items,
                   task_data, target_chat_ids, is_overdue, response>>

\* Mutant: the audit row written before the notification is dispatched
CompletionCalls_BackupFirst(item, at) ==
    <<BackupCall(item, on_time_status(task_data.due_date, is_overdue), at),
      SendCall(item, "completed", target_chat_ids,
               completion_status(task_data.due_date, at), at)>>

\* Lines 1311 and 1339: the outbound calls of a completion, in order:
\* send_to_multiple_chats with the classified message, then backup_to_sheet
CompletionCalls(item, at) ==
    <<SendCall(item, "completed", target_chat_ids,
               completion_status(task_data.due_date, at), at),
      BackupCall(item, on_time_status(task_data.due_date, is_overdue), at)>>

\* Lines 1259-1339: a status item whose new status is a done word: the
\* completion notification, classified at a fresh clock reading, then the
\* audit row
StatusCompleted ==
    /\ hpc = "fields"
    /\ history_items[hi].field = "status"
    /\ IsDone(history_items[hi].status)
    /\ now' \in Advance(now)
    /\ calls' = calls \o CompletionCalls(hi, now')
    /\ hpc' = FromMainLoop(hi + 1)[1]
    /\ hi' = FromMainLoop(hi + 1)[2]
    /\ UNCHANGED <<CHAT_ID, statsVars, routeVars, sendVars, cacheVars, event, history_items,
                   task_data, target_chat_ids, is_overdue, response>>

\* Lines 1341-1353: any other new status: the state-changed notification
StatusChanged ==
    /\ hpc = "fields"
    /\ history_items[hi].field = "status"
    /\ history_items[hi].status # NullStatus
    /\ ~IsDone(history_items[hi].status)
    /\ calls' = Append(calls, SendCall(hi, "status_changed", target_chat_ids, "", now))
    /\ hpc' = FromMainLoop(hi + 1)[1]
    /\ hi' = FromMainLoop(hi + 1)[2]
    /\ UNCHANGED <<CHAT_ID, statsVars, routeVars, now, sendVars, cacheVars, event, history_items,
                   task_data, target_chat_ids, is_overdue, response>>

\* Lines 1355-1414: assignee_add, assignee_rem and due_date items
FieldChanged ==
    /\ hpc = "fields"
    /\ history_items[hi].field \in {"assignee_add", "assignee_rem", "due_date"}
    /\ calls' = Append(calls, SendCall(hi, history_items[hi].field, target_chat_ids, "", now))
    /\ hpc' = FromMainLoop(hi + 1)[1]
    /\ hi' = FromMainLoop(hi + 1)[2]
    /\ UNCHANGED <<CHAT_ID, statsVars, routeVars, now, sendVars, cacheVars, event, history_items,
                   task_data, target_chat_ids, is_overdue, response>>

\* Line 1458: return {"ok": True}, 200
ReturnOk ==
    /\ hpc = "return"
    /\ hpc' = "done"
    /\ response' = 200
    /\ UNCHANGED <<CHAT_ID, statsVars, routeVars, now, sendVars, cacheVars, event, history_items,
                   hi, task_data, target_chat_ids, is_overdue, calls>>

Next ==
    \/ FetchTask
    \/ NotifyEvent
    \/ TagAdded
    \/ TagRemoved
    \/ StatusCompleted
    \/ StatusChanged
    \/ FieldChanged
    \/ ReturnOk

Spec == InitHook /\ [][Next]_vars

\* Line 1259 for a status item whose new status is not a string:
\* new_status.lower() raises AttributeError. No try encloses the loops of
\* 1198 and 1247, so the exception leaves clickup_webhook and the framework
\* answers 500.
StatusRaises ==
    /\ hpc = "fields"
    /\ history_items[hi].field = "status"
    /\ history_items[hi].status = NullStatus
    /\ hpc' = "done"
    /\ response' = 500
    /\ UNCHANGED <<CHAT_ID, statsVars, routeVars, now, sendVars, cacheVars, event,
                   history_items, hi, task_data, target_chat_ids, is_overdue, calls>>

InitRaw == InitHookWith(RawItems)

NextRaw ==
    \/ Next
    \/ StatusRaises

\* The handler on payloads that may hold a malformed history item
SpecRaw == InitRaw /\ [][NextRaw]_vars

----------------------------------------------------------------------------
(* SpecCache: a sequence of get_task_info calls for one task ID, with the  *)
(* cache flag either way                                                   *)

MaxCalls == 3           \* calls of get_task_info in one run

\* Half the time a cached record is served, in milliseconds
HalfTtlMs == (CACHE_TTL * 1000) \div 2

\* The records the task API answers with in this specification
CacheRecords == {d \in TaskRecords : d.due_date = NoDue /\ Len(d.tags.list) <= 1}

InitCache ==
    /\ StatsIdle
    /\ CHAT_ID = "-1000000000001"
    /\ tags = [present |-> FALSE, list |-> <<>>]
    /\ result = NoResult
    /\ rpc = "idle"
    /\ now = Now0
    /\ SendIdle
    /\ CACHE_ENABLED \in BOOLEAN
    /\ task_cache = NoCache
    /\ event = ""
    /\ history_items = <<>>
    /\ hpc = "idle"
    /\ hi = 0
    /\ task_data = NoData
    /\ target_chat_ids = <<>>
    /\ is_overdue = FALSE
    /\ calls = <<>>
    /\ response = 0

\* Lines 202-244: one call get_task_info(task_id, force_refresh)
GetTaskInfo ==
    /\ Len(calls) < MaxCalls
    /\ \E force_refresh \in BOOLEAN : \E r \in get_task_info(force_refresh) :
          /\ (r.ok /\ r.via = "api") => r.data \in CacheRecords
          /\ calls' = Append(calls, FetchCall(0, force_refresh, r))
          /\ task_cache' = r.cache
    /\ UNCHANGED <<CHAT_ID, statsVars, routeVars, now, sendVars, CACHE_ENABLED, event,
                   history_items, hpc, hi, task_data, target_chat_ids, is_overdue,
                   response>>

\* Time passes between two calls, up to twice the time a record is served
ClockPasses ==
    /\ now < Now0 + 4 * HalfTtlMs
    /\ now' = now + HalfTtlMs
    /\ UNCHANGED <<CHAT_ID, statsVars, routeVars, sendVars, cacheVars, hookVars>>

NextCache ==
    \/ GetTaskInfo
    \/ ClockPasses

SpecCache == InitCache /\ [][NextCache]_vars

----------------------------------------------------------------------------
(* Statistics aggregator: analyze_tasks *)

MaxTasks == 2           \* tasks in the list analyze_tasks is given
MaxClockSteps == 2      \* clock steps that may pass while the statistics are computed

WORD_en_cours == <<"e","n"," ","c","o","u","r","s">>
WORD_doing == <<"d","o","i","n","g">>
WORD_to_do == <<"t","o"," ","d","o">>

\* Line 356
InProgressWords == { WORD_in_progress, WORD_en_cours, WORD_doing }

Usernames == {"an", "binh"}

\* task['status']: a dict with a status word, or no dict at all
StatusInfo(w) == [present |-> TRUE, status |-> w]
NoStatusInfo == [present |-> FALSE, status |-> <<>>]

\* task['assignees']: a list of usernames, or the key missing (or null)
AssigneeList(l) == [present |-> TRUE, list |-> l]
NoAssigneeList == [present |-> FALSE, list |-> <<>>]

\* task['priority']: missing, a plain value, or a dict whose 'priority' entry
\* is the value. id is the value where it is an integer and 0 where it is
\* anything else (ClickUp's "urgent", "high", ...).
PriorityValue(kind, id) == [kind |-> kind, id |-> id]

StatsTask(st, due, as, pr) ==
    [status |-> st, due_date |-> due, assignees |-> as, priority |-> pr]

\* The tasks the lists are drawn from: every status class (done words in
\* several spellings, in-progress words, other, missing), due dates before,
\* at and after the first clock reading, unparsable and missing, zero, one
\* and two assignees, every priority form.
StatsTasks ==
    { StatsTask(StatusInfo(SPELL_Completed), Due(Now0 - 3 * HourMs),
                AssigneeList(<<"an">>), PriorityValue("plain", 1)),
      StatsTask(StatusInfo(WORD_in_progress), Due(Now0),
                AssigneeList(<<"binh", "an">>), PriorityValue("dict", 2)),
      StatsTask(StatusInfo(WORD_to_do), Due(Now0 - 3 * HourMs),
                AssigneeList(<<>>), PriorityValue("none", 0)),
      StatsTask(NoStatusInfo, NoDue, NoAssigneeList, PriorityValue("plain", 3)),
      StatsTask(StatusInfo(SPELL_CLOSED), Due(Now0),
                AssigneeList(<<>>), PriorityValue("dict", 4)),
      StatsTask(StatusInfo(WORD_doing), BadDue,
                AssigneeList(<<"binh">>), PriorityValue("plain", 5)),
      StatsTask(StatusInfo(WORD_done), NoDue,
                AssigneeList(<<"binh">>), PriorityValue("none", 0)),
      StatsTask(StatusInfo(WORD_en_cours), Due(Now0 + ClockStepMs),
                AssigneeList(<<"an">>), PriorityValue("dict", 0)) }

\* Lines 335-349: the stats dict before the loop
InitialStats(l) == [NoStats EXCEPT !.total = Len(l)]

\* Lines 352-353: the lower-cased status, '' when there is no status dict
task_status(task) ==
    IF task.status.present THEN lower(task.status.status) ELSE <<>>

\* Line 355
is_completed(task) == task_status(task) \in DoneSynonyms

\* Line 356
is_in_progress(task) == task_status(task) \in InProgressWords

\* Mutant: a due date the clock has reached counts as passed
task_overdue_Reached(task, t) ==
    task.due_date.kind = "ms" /\ t >= task.due_date.ms

\* Lines 366-367 and 397-398 at clock reading t:
\* due_date and check_overdue(due_date)
task_overdue(task, t) ==
    task.due_date.kind # "none" /\ check_overdue(task.due_date, t)

\* Mutant: only a missing assignees key counts as unassigned
no_assignees_MissingOnly(task) == ~task.assignees.present

\* Line 372: not assignees or len(assignees) == 0
no_assignees(task) ==
    ~task.assignees.present \/ Len(task.assignees.list) = 0

\* Mutant: only tasks in progress are counted as pending
pending_step_InProgressOnly(task) == IF is_in_progress(task) THEN 1 ELSE 0

\* Lines 358-361: what the task adds to the pending count
pending_step(task) == IF is_completed(task) THEN 0 ELSE 1

\* Lines 379-385
NewBucket(u) ==
    [username |-> u, completed |-> 0, pending |-> 0, overdue |-> 0,
     in_progress |-> 0, total |-> 0]

\* The position of username u in the by_user dict (kept in insertion order),
\* 0 when it has no bucket
BucketIndex(by_user, u) ==
    IF \E k \in DOMAIN by_user : by_user[k].username = u
    THEN CHOOSE k \in DOMAIN by_user : by_user[k].username = u
    ELSE 0

\* Lines 376-399 for one assignee, at clock reading t
count_assignee(by_user, u, task, t) ==
    LET b0 == IF BucketIndex(by_user, u) = 0
              THEN Append(by_user, NewBucket(u)) ELSE by_user
        k  == BucketIndex(b0, u)
        b  == b0[k]
        open == ~is_completed(task)
    IN [b0 EXCEPT ![k] =
          [b EXCEPT
             !.total = @ + 1,
             !.completed = @ + (IF open THEN 0 ELSE 1),
             !.pending = @ + (IF open THEN 1 ELSE 0),
             !.in_progress = @ + (IF open /\ is_in_progress(task) THEN 1 ELSE 0),
             !.overdue = @ + (IF open /\ task_overdue(task, t) THEN 1 ELSE 0)]]

\* Mutant: only the first assignee of a task is counted
count_assignees_FirstOnly(by_user, l, task, r) ==
    IF l = <<>> THEN by_user ELSE count_assignee(by_user, Head(l), task, Head(r))

\* Lines 375-399: the loop over the assignees l, assignee j at reading r[j]
RECURSIVE count_assignees(_, _, _, _)
count_assignees(by_user, l, task, r) ==
    IF l = <<>> THEN by_user
    ELSE count_assignees(count_assignee(by_user, Head(l), task, Head(r)),
                         Tail(l), task, Tail(r))

\* Lines 401-405
priority_id(task) == task.priority.id

\* Lines 407-414
count_priority(bp, id) ==
    CASE id = 1 -> [bp EXCEPT !.urgent = @ + 1]
      [] id = 2 -> [bp EXCEPT !.high = @ + 1]
      [] id = 3 -> [bp EXCEPT !.normal = @ + 1]
      [] id = 4 -> [bp EXCEPT !.low = @ + 1]
      [] OTHER  -> bp

\* Lines 352-414: one iteration of the loop. r[1] is the clock reading of
\* line 367, r[1 + j] the reading of line 398 for assignee j.
analyze_task(s, task, r) ==
    LET open == ~is_completed(task) IN
    [s EXCEPT
       !.completed = @ + (IF open THEN 0 ELSE 1),
       !.pending = @ + pending_step(task),
       !.in_progress = @ + (IF open /\ is_in_progress(task) THEN 1 ELSE 0),
       !.overdue = @ + (IF open /\ task_overdue(task, r[1]) THEN 1 ELSE 0),
       !.unassigned = @ + (IF no_assignees(task) THEN 1 ELSE 0),
       !.by_user = IF no_assignees(task) THEN @
                   ELSE count_assignees(@, task.assignees.list, task, Tail(r)),
       !.by_priority = count_priority(@, priority_id(task))]

\* The clock readings possible after a reading of t while the statistics
\* are computed
AdvanceWithin(t) ==
    {u \in Advance(t) : u <= Now0 + MaxClockSteps * ClockStepMs}

\* n successive clock readings, the first made after a reading of t
RECURSIVE Readings(_, _)
Readings(t, n) ==
    IF n = 0 THEN {<<>>}
    ELSE UNION {{<<u>> \o rest : rest \in Readings(u, n - 1)} : u \in AdvanceWithin(t)}

InitStats ==
    /\ CHAT_ID = "-1000000000001"
    /\ tags = [present |-> FALSE, list |-> <<>>]
    /\ result = NoResult
    /\ rpc = "idle"
    /\ now = Now0
    /\ SendIdle
    /\ HookIdle
    /\ tasks \in BoundedSeq(StatsTasks, MaxTasks)
    /\ stats = NoStats
    /\ apc = "call"
    /\ ai = 0
    /\ read_at = <<>>
    /\ stats1 = NoStats
    /\ runs = 0
    /\ report = NoReport

\* Mutant: the second call goes on from the per-user buckets of the first
StatsAtCall_KeepsBuckets(l) == [InitialStats(l) EXCEPT !.by_user = stats1.by_user]

\* The dict a call starts from
StatsAtCall(l) == InitialStats(l)

\* Lines 334-349: analyze_tasks(tasks) is called (twice in a row, on the
\* same list)
CallAnalyze ==
    /\ apc = "call"
    /\ stats' = StatsAtCall(tasks)
    /\ apc' = "loop"
    /\ ai' = 1
    /\ read_at' = <<>>
    /\ UNCHANGED <<CHAT_ID, routeVars, now, sendVars, cacheVars, hookVars,
                   tasks, stats1, runs, report>>

\* Lines 351-414: the loop body for task ai
AnalyzeTask ==
    /\ apc = "loop"
    /\ ai <= Len(tasks)
    /\ LET n == IF no_assignees(tasks[ai]) THEN 0 ELSE Len(tasks[ai].assignees.list)
       IN \E r \in Readings(now, 1 + n) :
             /\ stats' = analyze_task(stats, tasks[ai], r)
             /\ read_at' = Append(read_at, r[1])
             /\ now' = r[1 + n]
    /\ ai' = ai + 1
    /\ UNCHANGED <<CHAT_ID, routeVars, sendVars, cacheVars, hookVars,
                   tasks, apc, stats1, runs, report>>

\* Line 416: return stats
ReturnStats ==
    /\ apc = "loop"
    /\ ai > Len(tasks)
    /\ runs' = runs + 1
    /\ stats1' = IF runs = 0 THEN stats ELSE stats1
    /\ apc' = IF runs = 0 THEN "call" ELSE "done"
    /\ UNCHANGED <<CHAT_ID, routeVars, now, sendVars, cacheVars, hookVars,
                   tasks, stats, ai, read_at, report>>

NextStats ==
    \/ CallAnalyze
    \/ AnalyzeTask
    \/ ReturnStats

SpecStats == InitStats /\ [][NextStats]_vars

----------------------------------------------------------------------------
(* Report renderers: the per-user rows of generate_report and              *)
(* generate_weekly_report_html                                             *)

MaxUsers == 2           \* per-user buckets in the rendered statistics

\* Task totals of a bucket: small ones, and 10 and 20, whose percentages fall
\* on the thresholds (90, 70, 50) and on either side of them
UserTotals == {0, 1, 2, 3, 10, 20}

ReportUsernames == <<"an", "binh", "chi", "dung">>

\* The (completed, total) pairs a bucket can hold. analyze_tasks creates a
\* bucket together with its first task; the renderers also accept total = 0
\* (lines 559, 564), so that is drawn too.
BucketCounts == UNION {{<<c, t>> : c \in 0..t} : t \in UserTotals}

ReportBucket(u, ct) ==
    [username |-> u, completed |-> ct[1], pending |-> ct[2] - ct[1],
     overdue |-> 0, in_progress |-> 0, total |-> ct[2]]

\* by_user dicts of n users, in insertion order
ReportBuckets(n) ==
    {[k \in 1..n |-> ReportBucket(ReportUsernames[k], c[k])] :
        c \in [1..n -> BucketCounts]}

RECURSIVE SumOver(_, _)
SumOver(l, field) ==
    IF l = <<>> THEN 0 ELSE l[1][field] + SumOver(Tail(l), field)

\* The sort key of lines 559 and 636, completed / total if total > 0 else 0,
\* compared exactly: key(a) > key(b). (The float quotients of two such pairs
\* compare as the fractions do.)
KeyGreater(a, b) ==
    LET ca == IF a.total > 0 THEN a.completed ELSE 0
        ta == IF a.total > 0 THEN a.total ELSE 1
        cb == IF b.total > 0 THEN b.completed ELSE 0
        tb == IF b.total > 0 THEN b.total ELSE 1
    IN ca * tb > cb * ta

Reverse(l) == [k \in DOMAIN l |-> l[Len(l) + 1 - k]]

\* b put into the descending list l behind every element whose key is not
\* smaller than its own
InsertDescending(b, l) ==
    LET n == Cardinality({k \in DOMAIN l : ~KeyGreater(b, l[k])})
    IN SubSeq(l, 1, n) \o <<b>> \o SubSeq(l, n + 1, Len(l))

\* b put into the ascending list l behind every element whose key is not
\* greater than its own
InsertAscending(b, l) ==
    LET n == Cardinality({k \in DOMAIN l : ~KeyGreater(l[k], b)})
    IN SubSeq(l, 1, n) \o <<b>> \o SubSeq(l, n + 1, Len(l))

RECURSIVE SortedAscending(_)
SortedAscending(l) ==
    IF l = <<>> THEN <<>>
    ELSE InsertAscending(l[Len(l)], SortedAscending(SubSeq(l, 1, Len(l) - 1)))

\* Mutant: sorted(..., key=...) followed by a reversal of the list
sorted_users_ThenReversed(l) == Reverse(SortedAscending(l))

\* Lines 557-561 and 634-638: sorted(by_user.items(), key=..., reverse=True),
\* a stable sort: elements with equal keys keep their order
RECURSIVE sorted_users(_)
sorted_users(l) ==
    IF l = <<>> THEN <<>>
    ELSE InsertDescending(l[Len(l)], sorted_users(SubSeq(l, 1, Len(l) - 1)))

\* user_kpi >= th, for user_kpi = completed / total * 100 if total > 0 else 0
\* (lines 564 and 641), compared exactly. (For the thresholds 90, 70 and 50
\* the float product compares as the fraction does.)
KpiAtLeast(b, th) ==
    IF b.total > 0 THEN 100 * b.completed >= th * b.total ELSE 0 >= th

\* Lines 566-573: the icon of a row of the plain-text report
text_icon(b) ==
    IF KpiAtLeast(b, 90) THEN "star"
    ELSE IF KpiAtLeast(b, 70) THEN "check"
    ELSE IF KpiAtLeast(b, 50) THEN "warning"
    ELSE "red"

\* Mutant: the HTML renderer asks for more than 90 for its top class
html_class_Above90(b) ==
    IF b.total > 0 /\ 100 * b.completed > 90 * b.total
    THEN [class |-> "excellent", icon |-> "star"]
    ELSE IF KpiAtLeast(b, 70) THEN [class |-> "good", icon |-> "check"]
    ELSE IF KpiAtLeast(b, 50) THEN [class |-> "average", icon |-> "warning"]
    ELSE [class |-> "poor", icon |-> "red"]

\* Lines 643-654: the class and icon of a row of the HTML report
html_class(b) ==
    IF KpiAtLeast(b, 90) THEN [class |-> "excellent", icon |-> "star"]
    ELSE IF KpiAtLeast(b, 70) THEN [class |-> "good", icon |-> "check"]
    ELSE IF KpiAtLeast(b, 50) THEN [class |-> "average", icon |-> "warning"]
    ELSE [class |-> "poor", icon |-> "red"]

InitReport ==
    /\ CHAT_ID = "-1000000000001"
    /\ tags = [present |-> FALSE, list |-> <<>>]
    /\ result = NoResult
    /\ rpc = "idle"
    /\ now = Now0
    /\ SendIdle
    /\ HookIdle
    /\ tasks = <<>>
    /\ \E n \in 0..MaxUsers : \E l \in ReportBuckets(n) :
          stats = [NoStats EXCEPT !.by_user = l,
                                  !.total = SumOver(l, "total"),
                                  !.completed = SumOver(l, "completed"),
                                  !.pending = SumOver(l, "pending")]
    /\ apc = "render"
    /\ ai = 0
    /\ read_at = <<>>
    /\ stats1 = NoStats
    /\ runs = 0
    /\ report = NoReport

\* Lines 535-581: generate_report lists the users when there are tasks and
\* buckets: one row per user, in ranking order, with its icon
RenderText ==
    /\ apc = "render"
    /\ report.text = <<>>
    /\ stats.total # 0
    /\ stats.by_user # <<>>
    /\ LET sorted == sorted_users(stats.by_user)
       IN report' = [report EXCEPT !.text =
                        [k \in DOMAIN sorted |->
                            [username |-> sorted[k].username,
                             class |-> "", icon |-> text_icon(sorted[k])]]]
    /\ UNCHANGED <<CHAT_ID, routeVars, now, sendVars, cacheVars, hookVars,
                   tasks, stats, apc, ai, read_at, stats1, runs>>

\* Lines 632-666: generate_weekly_report_html builds one table row per
\* user, in ranking order, with its class and icon
RenderHtml ==
    /\ apc = "render"
    /\ report.html = <<>>
    /\ stats.by_user # <<>>
    /\ LET sorted == sorted_users(stats.by_user)
       IN report' = [report EXCEPT !.html =
                        [k \in DOMAIN sorted |->
                            [username |-> sorted[k].username,
                             class |-> html_class(sorted[k]).class,
                             icon |-> html_class(sorted[k]).icon]]]
    /\ UNCHANGED <<CHAT_ID, routeVars, now, sendVars, cacheVars, hookVars,
                   tasks, stats, apc, ai, read_at, stats1, runs>>

NextReport ==
    \/ RenderText
    \/ RenderHtml

SpecReport == InitReport /\ [][NextReport]_vars

----------------------------------------------------------------------------
(* Scheduler endpoints: trigger_*_report, trigger_deadline_warning *)

\* pytz 'Asia/Ho_Chi_Minh' (line 41): UTC+7 all year, no daylight saving
VnOffsetMs == 7 * HourMs
DayMs == 24 * HourMs

\* The first Vietnamese midnight after Now0 (Now0 is 07:00 there)
Midnight1 == Now0 + 17 * HourMs

\* The routes of lines 1479, 1495, 1511, 1527 and 1556
DailyRoutes ==
    {"trigger_morning_report", "trigger_noon_report", "trigger_evening_report"}
WeeklyRoute == "trigger_weekly_report"
DeadlineRoute == "trigger_deadline_warning"
TriggerRoutes == DailyRoutes \cup {WeeklyRoute, DeadlineRoute}

\* The instants the deadline check is made at: 00:00, 09:00 and
\* 23:59:59.999 of one Vietnamese day, and 00:00 of the next
TriggerInstants ==
    { Now0 - VnOffsetMs, Now0 + 2 * HourMs, Midnight1 - 1, Midnight1 }

\* A task of the list API as far as the deadline check reads it
TriggerTask(st, due, tg) == [status |-> st, due_date |-> due, tags |-> tg]

NoTags == [present |-> TRUE, list |-> <<>>]
AdminTags == [present |-> TRUE, list |-> <<TagDict(kwAdmin)>>]
ContentDevTags == [present |-> TRUE, list |-> <<TagDict(kwContent), TagDict(kwDev)>>]

\* The tasks the list API answers with: open and done in several spellings,
\* no status dict; due dates on both sides of each end of the two days that
\* follow the instants above, overdue, missing and unparsable
TriggerTasks ==
    { TriggerTask(StatusInfo(WORD_to_do), Due(Midnight1), AdminTags),
      TriggerTask(StatusInfo(WORD_in_progress), Due(Midnight1 + DayMs - 1), ContentDevTags),
      TriggerTask(StatusInfo(WORD_to_do), Due(Midnight1 + DayMs), NoTags),
      TriggerTask(StatusInfo(WORD_to_do), Due(Midnight1 - 1), NoTags),
      TriggerTask(StatusInfo(SPELL_Completed), Due(Midnight1), AdminTags),
      TriggerTask(StatusInfo(WORD_to_do), NoDue, AdminTags),
      TriggerTask(StatusInfo(WORD_doing), BadDue, NoTags),
      TriggerTask(NoStatusInfo, Due(Midnight1 + HourMs), AdminTags),
      TriggerTask(StatusInfo(WORD_to_do), Due(Now0 - 8 * HourMs), NoTags),
      TriggerTask(StatusInfo(SPELL_ACHEVE), Due(Midnight1 + DayMs), ContentDevTags),
      TriggerTask(StatusInfo(WORD_to_do), Due(Midnight1 + 2 * DayMs - 1), AdminTags),
      TriggerTask(StatusInfo(WORD_to_do), Due(Midnight1 + 2 * DayMs), NoTags) }

\* What the request of line 313 (or 261) ends in: a 200 answer with a task
\* list of at most n tasks, or anything else
ListAnswers(n) ==
    {[ok |-> FALSE, tasks |-> <<>>]}
      \cup {[ok |-> TRUE, tasks |-> l] : l \in BoundedSeq(TriggerTasks, n)}

\* Lines 297-322: the tasks of the answer, [] when the request failed
get_today_tasks(answer) == IF answer.ok THEN answer.tasks ELSE <<>>

\* Lines 247-294: the tasks of the answer created in the period, [] when
\* the request failed (the answers above hold tasks of the period only)
get_all_tasks_in_period(answer) == IF answer.ok THEN answer.tasks ELSE <<>>

\* The request to the list API, as the log keeps it
ListCall(answer) ==
    Call("list", 0, "api", <<>>, IF answer.ok THEN "ok" ELSE "failed", FALSE,
         NoData.tags, now)

\* The request to the render API (line 1009)
RenderCall(outcome) ==
    Call("render", 0, "api", <<>>, outcome, FALSE, NoData.tags, now)

\* The sendDocument request for destination k of all_chat_ids (line 1032)
DocumentCall(k, chat_id, outcome) ==
    Call("document", k, "pdf", <<chat_id>>, outcome, FALSE, NoData.tags, now)

\* list(set(TAG_TO_CHAT_ID.values())) (lines 1487, 1503, 1519, 1018): every
\* value once, in an order the hash seed decides
all_chat_ids ==
    ListsOf({TAG_TO_CHAT_ID(k) : k \in {"content", "dev", "admin", "default"}})

\* Mutant: the method is not looked at
IsHead_Never == FALSE

\* request.method == 'HEAD' (lines 1481, 1497, 1513, 1529, 1562)
IsHead == event.method = "HEAD"

\* A datetime: its millisecond since the epoch and the microseconds past it
Instant(ms, us) == [ms |-> ms, us |-> us]

\* a <= b on datetimes
NotAfter(a, b) == a.ms < b.ms \/ (a.ms = b.ms /\ a.us <= b.us)

\* replace(hour=0, minute=0, second=0, microsecond=0) on the Vietnamese
\* datetime of instant t, as an instant
vn_midnight(t) == ((t + VnOffsetMs) \div DayMs) * DayMs - VnOffsetMs

\* Lines 1577-1578
tomorrow_start(t) == Instant(vn_midnight(t + DayMs), 0)

\* Mutant: the window ends at the midnight that follows, included
tomorrow_end_NextMidnight(t) == Instant(vn_midnight(t + DayMs) + DayMs, 0)

\* Line 1579: 23:59:59.999999 of the same day
tomorrow_end(t) == Instant(vn_midnight(t + DayMs) + DayMs - 1, 999)

\* Lines 1584-1585: the lower-cased status, '' when there is no status dict
warning_status(task) ==
    IF task.status.present THEN lower(task.status.status) ELSE <<>>

\* Lines 1588-1600: the task is warned about. A done task and a task
\* without due date are skipped; a due date int() cannot parse raises inside
\* the try of 1595 and the task is passed over (1644-1651).
warns(task, t) ==
    /\ warning_status(task) \notin DoneSynonyms
    /\ task.due_date.kind = "ms"
    /\ NotAfter(tomorrow_start(t), Instant(task.due_date.ms, 0))
    /\ NotAfter(Instant(task.due_date.ms, 0), tomorrow_end(t))

\* What the report side holds once a report has been generated
TextReport(route) == [text |-> <<route>>, html |-> <<>>]
HtmlReport(route) == [text |-> <<>>, html |-> <<route>>]

\* What the requests of lines 1009 and 1032 end in
RenderOutcomes == {"200", "non200", "exception"}
DocumentOutcomes == {"200", "non200", "exception"}

\* The variables no endpoint writes
triggerFrame ==
    <<CHAT_ID, routeVars, now, sendVars, cacheVars, event, history_items,
      task_data, is_overdue, stats, apc, ai, read_at, stats1, runs>>

\* The scheduler calls one of the endpoints, with GET or with HEAD
InitTrigger ==
    /\ CHAT_ID \in ChatIdEnv
    /\ tags = [present |-> FALSE, list |-> <<>>]
    /\ result = NoResult
    /\ rpc = "idle"
    /\ SendIdle
    /\ CACHE_ENABLED = FALSE
    /\ task_cache = NoCache
    /\ event \in [route : TriggerRoutes, method : {"GET", "HEAD"}]
    /\ now \in IF event.route = DeadlineRoute THEN TriggerInstants ELSE {Now0}
    /\ history_items = <<>>
    /\ hpc = "request"
    /\ hi = 0
    /\ task_data = NoData
    /\ target_chat_ids = <<>>
    /\ is_overdue = FALSE
    /\ calls = <<>>
    /\ response = 0
    /\ StatsIdle

\* Lines 1481-1482 and their four copies: HEAD is answered at once
AnswerHead ==
    /\ hpc = "request"
    /\ IsHead
    /\ hpc' = "done"
    /\ response' = 200
    /\ UNCHANGED <<triggerFrame, hi, target_chat_ids, calls, tasks, report>>

\* Lines 1484-1489 (1500-1505, 1516-1521): the report is generated from the
\* task list (generate_report returns a report for an empty list too) and
\* handed to send_to_multiple_chats with all_chat_ids.
DailyReport ==
    /\ hpc = "request"
    /\ ~IsHead
    /\ event.route \in DailyRoutes
    /\ \E answer \in ListAnswers(1), to \in all_chat_ids :
          /\ tasks' = get_today_tasks(answer)
          /\ calls' = <<ListCall(answer), SendCall(0, "report", to, "sent", now)>>
    /\ report' = TextReport(event.route)
    /\ hpc' = "done"
    /\ response' = 200
    /\ UNCHANGED <<triggerFrame, hi, target_chat_ids>>

\* Lines 973-982: the tasks of the week are fetched; without any,
\* generate_and_send_weekly_pdf returns False and the answer is 500 (1542-1546)
WeeklyQuery ==
    /\ hpc = "request"
    /\ ~IsHead
    /\ event.route = WeeklyRoute
    /\ \E answer \in ListAnswers(1) :
          /\ tasks' = get_all_tasks_in_period(answer)
          /\ calls' = Append(calls, ListCall(answer))
    /\ hpc' = IF tasks' = <<>> THEN "done" ELSE "render"
    /\ response' = IF tasks' = <<>> THEN 500 ELSE 0
    /\ UNCHANGED <<triggerFrame, hi, target_chat_ids, report>>

\* Lines 984-992: the HTML is generated; without the render API's key or URL
\* False is returned before any request
RenderUnconfigured ==
    /\ hpc = "render"
    /\ report' = HtmlReport(event.route)
    /\ hpc' = "done"
    /\ response' = 500
    /\ UNCHANGED <<triggerFrame, hi, target_chat_ids, calls, tasks>>

\* Lines 984-1018 and 1059-1070: the HTML is generated and posted to the
\* render API; on 200 the loop over all_chat_ids is entered, on anything
\* else False is returned
Render ==
    /\ hpc = "render"
    /\ report' = HtmlReport(event.route)
    /\ \E outcome \in RenderOutcomes :
          /\ calls' = Append(calls, RenderCall(outcome))
          /\ IF outcome = "200"
             THEN /\ target_chat_ids' \in all_chat_ids
                  /\ hi' = 1
                  /\ hpc' = "documents"
                  /\ response' = 0
             ELSE /\ UNCHANGED <<target_chat_ids, hi>>
                  /\ hpc' = "done"
                  /\ response' = 500
    /\ UNCHANGED <<triggerFrame, tasks>>

\* Lines 1020-1050: the PDF is posted to destination hi; a non-200 answer
\* and an exception are logged and the loop goes on
SendDocument ==
    /\ hpc = "documents"
    /\ hi <= Len(target_chat_ids)
    /\ \E outcome \in DocumentOutcomes :
          calls' = Append(calls, DocumentCall(hi, target_chat_ids[hi], outcome))
    /\ hi' = hi + 1
    /\ UNCHANGED <<triggerFrame, hpc, target_chat_ids, response, tasks, report>>

\* Lines 1052-1057 and 1537-1541: after the loop True is returned and the
\* endpoint answers 200
WeeklyReturn ==
    /\ hpc = "documents"
    /\ hi > Len(target_chat_ids)
    /\ hpc' = "done"
    /\ response' = 200
    /\ UNCHANGED <<triggerFrame, hi, target_chat_ids, calls, tasks, report>>

\* Lines 1568-1581: the task list is fetched; without tasks the answer is
\* 200 at once, else the clock is read (the instant `now`) and the loop over
\* the tasks is entered
DeadlineQuery ==
    /\ hpc = "request"
    /\ ~IsHead
    /\ event.route = DeadlineRoute
    /\ \E answer \in ListAnswers(MaxTasks) :
          /\ tasks' = get_today_tasks(answer)
          /\ calls' = Append(calls, ListCall(answer))
    /\ hpc' = IF tasks' = <<>> THEN "done" ELSE "warn"
    /\ hi' = IF tasks' = <<>> THEN 0 ELSE 1
    /\ response' = IF tasks' = <<>> THEN 200 ELSE 0
    /\ UNCHANGED <<triggerFrame, target_chat_ids, report>>

\* Lines 1583-1651: one iteration of the loop over the tasks
DeadlineTask ==
    /\ hpc = "warn"
    /\ hi <= Len(tasks)
    /\ IF warns(tasks[hi], now)
       THEN \E to \in get_all_chat_ids_from_tags(tasks[hi].tags) :
               calls' = Append(calls, SendCall(hi, "warning", to, "sent", now))
       ELSE UNCHANGED calls
    /\ hi' = hi + 1
    /\ UNCHANGED <<triggerFrame, hpc, target_chat_ids, response, tasks, report>>

\* Lines 1653-1654
DeadlineReturn ==
    /\ hpc = "warn"
    /\ hi > Len(tasks)
    /\ hpc' = "done"
    /\ response' = 200
    /\ UNCHANGED <<triggerFrame, hi, target_chat_ids, calls, tasks, report>>

NextTrigger ==
    \/ AnswerHead
    \/ DailyReport
    \/ WeeklyQuery
    \/ RenderUnconfigured
    \/ Render
    \/ SendDocument
    \/ WeeklyReturn
    \/ DeadlineQuery
    \/ DeadlineTask
    \/ DeadlineReturn

SpecTrigger == InitTrigger /\ [][NextTrigger]_vars

----------------------------------------------------------------------------
(* Claims about the dispatcher (checked under SpecSend) *)

\* How many times x occurs in the list l
Count(x, l) == Cardinality({i \in DOMAIN l : l[i] = x})

\* The request of destination k is over and did not end in a 200 response
SendFailed(k) == inner[k] = "dead" /\ post[k].outcome # "200"

\* C4: a failed delivery to one destination (exception, timeout, non-200)
\* never blocks or prevents the attempt for another destination: a send that
\* is ready to make its request can make it whatever the other sends ended
\* in, and when nothing is left to run a request has been made for every
\* element of chat_ids.
C4_FailureBlocksNoOtherSend ==
    /\ \A k \in DOMAIN inner :
          (inner[k] = "started" /\ \E j \in DOMAIN inner : SendFailed(j))
              => ENABLED StartPost(k)
    /\ (~ENABLED NextSend)
          => \A k \in DOMAIN chat_ids :
                Count(chat_ids[k], attempts) = Count(chat_ids[k], chat_ids)

\* The first send has failed and the second has made its request after that
C4_Witness ==
    /\ chat_ids = <<ContentChat, DevChat>>
    /\ SendFailed(1)
    /\ post[1].outcome = "timeout"
    /\ inner[2] = "posting"
    /\ post[2].left = post[2].seconds
    /\ attempts = <<ContentChat, DevChat>>

\* Every request has been made and needs no longer than join's timeout
AllSendsWithinGrace ==
    \A k \in DOMAIN inner :
        /\ inner[k] \in {"posting", "dead"}
        /\ post[k].seconds <= JoinTimeout

\* C5: when every destination's HTTP send finishes within the grace period
\* (3 seconds), all sends have completed by the time send_to_multiple_chats
\* returns.
C5_SendsCompleteBeforeReturn ==
    (mpc = "returned" /\ AllSendsWithinGrace)
        => \A k \in DOMAIN inner : inner[k] = "dead"

----------------------------------------------------------------------------
(* Claims about the webhook handler (checked under Spec) *)

\* Indices of the log entries of one kind of outbound call
SendsAt   == {i \in DOMAIN calls : calls[i].op = "send"}
FetchesAt == {i \in DOMAIN calls : calls[i].op = "fetch"}
BackupsAt == {i \in DOMAIN calls : calls[i].op = "backup"}

\* The initial fetch returned a task record
InitialFetchOk == Len(calls) >= 1 /\ calls[1].op = "fetch" /\ calls[1].variant = "ok"

\* The handler has returned from a taskUpdated event
UpdatedDone == hpc = "done" /\ event = "taskUpdated"

StatusItemsAt == {j \in DOMAIN history_items : history_items[j].field = "status"}

\* The new status of item j is, case-insensitively, one of complete,
\* completed, closed, done, achevé
NewStatusIsDone(j) ==
    \E w \in {WORD_complete, WORD_completed, WORD_closed, WORD_done, WORD_acheve} :
        /\ Len(w) = Len(history_items[j].status)
        /\ \A c \in DOMAIN w : LowerChar(history_items[j].status[c]) = w[c]

\* C6: for every inbound event a fresh task-detail request (force_refresh
\* True, answered by the API and not by the cache) is issued before any
\* notification is dispatched: it is the first outbound call of the handler
\* and every send comes after it.
C6_FreshFetchBeforeAnyNotification ==
    /\ hpc # "fetch"
          => /\ Len(calls) >= 1
             /\ calls[1].op = "fetch"
             /\ calls[1].force
             /\ calls[1].kind = "api"
    /\ \A i \in SendsAt : i > 1

\* A taskCreated event: the fetch, then the notification, then the return
C6_Witness ==
    /\ hpc = "done"
    /\ event = "taskCreated"
    /\ Len(calls) = 2
    /\ calls[1].op = "fetch" /\ calls[1].variant = "ok"
    /\ calls[2].op = "send" /\ calls[2].kind = "taskCreated"

\* C7: for every tag-changed history item, tag_added and tag_removed alike,
\* the handler re-fetches the task while processing the item and sends the
\* item's notification to the destinations computed from the tags of that
\* re-fetched record.
C7_TagItemsRefetchAndRouteFresh ==
    \A i \in SendsAt :
        calls[i].kind \in {"tag_added", "tag_removed"}
            => /\ i > 2
               /\ calls[i - 1].op = "fetch"
               /\ calls[i - 1].item = calls[i].item
               /\ calls[i - 1].variant = "ok"
               /\ calls[i].to \in get_all_chat_ids_from_tags(calls[i - 1].seen)

\* C8: for a completion on a task with a due date, with d = due date minus
\* the instant of classification, the variant chosen is late exactly when
\* d < 0, on-time exactly when 0 <= d < 24 hours, early exactly when
\* d >= 24 hours, and it is one of the three.
C8_CompletionTimingClassification ==
    \A i \in SendsAt :
        (calls[i].kind = "completed" /\ task_data.due_date.kind = "ms")
            => LET d == task_data.due_date.ms - calls[i].at
               IN /\ calls[i].variant \in {"late", "on_time", "early"}
                  /\ (calls[i].variant = "late") <=> (d < 0)
                  /\ (calls[i].variant = "on_time") <=> (0 <= d /\ d < 24 * HourMs)
                  /\ (calls[i].variant = "early") <=> (d >= 24 * HourMs)

\* Two completions of one event on either side of the 24 hour boundary: the
\* first classified with exactly 24 hours left, the second a clock step later
C8_Witness ==
    /\ task_data.due_date.kind = "ms"
    /\ \E i, j \in SendsAt :
          /\ i < j
          /\ calls[i].kind = "completed" /\ calls[j].kind = "completed"
          /\ task_data.due_date.ms - calls[i].at = 24 * HourMs
          /\ calls[i].variant = "early"
          /\ calls[j].variant = "on_time"

\* What C9 says of the status items of a finished taskUpdated event: a done
\* item has exactly one backup call, placed right after a completion
\* notification of the same item; any other status item has none.
BackupPerDoneItem ==
    \A j \in StatusItemsAt :
        LET b == {i \in BackupsAt : calls[i].item = j}
        IN IF NewStatusIsDone(j)
           THEN /\ Cardinality(b) = 1
                /\ \A i \in b : /\ i > 1
                                /\ calls[i - 1].op = "send"
                                /\ calls[i - 1].kind = "completed"
                                /\ calls[i - 1].item = j
           ELSE b = {}

\* C9 (as claimed): every status history item of a taskUpdated event whose
\* new status is a done synonym triggers exactly one backup_to_sheet call,
\* issued after the completion notification is dispatched; a status item
\* whose new status is not a done synonym triggers none.
C9_Original_BackupPerDoneItem ==
    UpdatedDone => BackupPerDoneItem

\* C9 (amended): the same, for events whose initial task fetch succeeded.
C9_BackupPerDoneItemWhenFetched ==
    (UpdatedDone /\ InitialFetchOk) => BackupPerDoneItem

\* A done item ("CLOSED") and a status item that is not done, in one event
C9_Witness ==
    /\ UpdatedDone
    /\ history_items = <<Item("status", SPELL_CLOSED), Item("status", WORD_in_progress)>>
    /\ Cardinality(BackupsAt) = 1
    /\ \E i \in BackupsAt : calls[i].item = 1 /\ calls[i - 1].kind = "completed"
    /\ Cardinality(SendsAt) = 2

\* What C10 says of status item j: exactly one notification is dispatched
\* for it, the completion notification for a done word and the
\* state-changed notification for any other
OneNotificationForStatusItem(j) ==
    LET n == {i \in SendsAt : calls[i].item = j}
    IN /\ Cardinality(n) = 1
       /\ \A i \in n :
             calls[i].kind = IF NewStatusIsDone(j) THEN "completed" ELSE "status_changed"

\* C10 (as claimed): for every status history item the handler dispatches
\* exactly one notification, the completion notification when the new
\* status is a done synonym (case-insensitively) and the state-changed
\* notification otherwise.
C10_Original_OneNotificationPerStatusItem ==
    hpc = "done" => \A j \in StatusItemsAt : OneNotificationForStatusItem(j)

\* C10 (amended): the same, for the status items of a taskUpdated event
\* whose initial task fetch succeeded.
C10_OneNotificationPerStatusItemWhenFetched ==
    (UpdatedDone /\ InitialFetchOk)
        => \A j \in StatusItemsAt : OneNotificationForStatusItem(j)

\* An upper-case accented done word and a status that is not done
C10_Witness ==
    /\ UpdatedDone
    /\ InitialFetchOk
    /\ history_items = <<Item("status", WORD_in_progress), Item("status", SPELL_ACHEVE)>>
    /\ \E i, k \in SendsAt :
          /\ calls[i].item = 1 /\ calls[i].kind = "status_changed"
          /\ calls[k].item = 2 /\ calls[k].kind = "completed"
    /\ Cardinality(SendsAt) = 2

----------------------------------------------------------------------------
(* Claims about the routing resolver (checked under SpecRoute) *)

Range(l) == {l[i] : i \in DOMAIN l}

\* Some tag of the argument carries a name in which keyword k occurs,
\* compared case-insensitively
Mentions(k) ==
    /\ tags.present
    /\ \E i \in DOMAIN tags.list :
          /\ tags.list[i].kind \in {"dict", "dict_noname", "str"}
          /\ Contains(k, lower(tags.list[i].name))

AnyKeyword ==
    Mentions(kwContent) \/ Mentions(kwDev) \/ Mentions(kwDeveloper) \/ Mentions(kwAdmin)

\* C1: whenever some tag name contains "admin" and some tag name contains
\* "content", the returned list includes both the admin destination and
\* the content destination.
C1_AdminAndContentBothRouted ==
    (rpc = "ret" /\ Mentions(kwAdmin) /\ Mentions(kwContent))
        => (AdminChat \in Range(result) /\ ContentChat \in Range(result))

\* The case of test_multi_tag: [{"name": "admin"}, {"name": "content"}]
C1_Witness ==
    /\ rpc = "ret"
    /\ tags.present
    /\ tags.list = <<[kind |-> "dict", name |-> kwAdmin],
                     [kind |-> "dict", name |-> kwContent]>>
    /\ Range(result) = {AdminChat, ContentChat}

\* C2: for a tag list (empty and missing ones included) in which no tag name
\* contains a recognized keyword, the returned list is exactly the one
\* default destination.
C2_NoKeywordRoutesToDefaultOnly ==
    (rpc = "ret" /\ ~AnyKeyword) => result = <<CHAT_ID>>

\* A non-empty list of unrecognized tags falls back to the default
C2_Witness ==
    /\ rpc = "ret"
    /\ tags.present
    /\ Len(tags.list) = 2
    /\ tags.list[1] = [kind |-> "dict", name |-> <<"b","u","g">>]
    /\ tags.list[2] = [kind |-> "str", name |-> <<"a","d","m">>]
    /\ result = <<CHAT_ID>>
    /\ CHAT_ID # ContentChat

\* The union the claim describes, stated from the keywords
MatchedUnion ==
    (IF Mentions(kwContent) THEN {ContentChat} ELSE {})
      \cup (IF Mentions(kwDev) \/ Mentions(kwDeveloper) THEN {DevChat} ELSE {})
      \cup (IF Mentions(kwAdmin) THEN {AdminChat} ELSE {})

\* C3: when at least one keyword matches, the returned list holds exactly the
\* union over all tags of the destinations whose keyword occurs in the tag
\* name case-insensitively (the three tests independent, the default not
\* added), and holds no destination twice.
C3_ResultIsUnionOfMatches ==
    (rpc = "ret" /\ AnyKeyword)
        => /\ Range(result) = MatchedUnion
           /\ Len(result) = Cardinality(Range(result))

\* One upper-case tag and one tag carrying two keywords, with the default
\* chat distinct from every tag chat
C3_Witness ==
    /\ rpc = "ret"
    /\ tags.present
    /\ tags.list = <<[kind |-> "str", name |-> <<"A","D","M","I","N">>],
                     [kind |-> "dict",
                      name |-> <<"c","o","n","t","e","n","t","-","a","d","m","i","n">>]>>
    /\ Range(result) = {AdminChat, ContentChat}
    /\ Len(result) = 2
    /\ CHAT_ID \notin Range(result)

----------------------------------------------------------------------------
(* Claims about the statistics (checked under SpecStats) *)

\* A call of analyze_tasks has returned and its dict is in stats
Returned == apc = "done" \/ (apc = "call" /\ runs = 1)

\* The tasks the dict in stats has counted so far
Counted ==
    IF apc = "loop" THEN 1..(ai - 1)
    ELSE IF Returned THEN 1..Len(tasks)
    ELSE {}

\* Task i is not completed: its status is outside the done words
OpenTask(i) == ~tasks[i].status.present \/ ~IsDone(tasks[i].status.status)

\* The counts of a stats dict or of a per-user bucket
CountsOf(s) == {s.completed, s.pending, s.overdue, s.in_progress, s.total}

\* C11: the statistics have only non-negative counts and completed + pending
\* = total, total being the number of input tasks; each task is counted in
\* exactly one of completed and pending (after every loop iteration the two
\* counts are the numbers of completed and of open tasks counted so far).
C11_CountsPartitionTotal ==
    /\ CountsOf(stats) \cup {stats.unassigned} \subseteq Nat
    /\ \A k \in DOMAIN stats.by_user : CountsOf(stats.by_user[k]) \subseteq Nat
    /\ {stats.by_priority.urgent, stats.by_priority.high,
        stats.by_priority.normal, stats.by_priority.low} \subseteq Nat
    /\ stats.completed = Cardinality({i \in Counted : ~OpenTask(i)})
    /\ stats.pending = Cardinality({i \in Counted : OpenTask(i)})
    /\ Returned => /\ stats.total = Len(tasks)
                   /\ stats.completed + stats.pending = stats.total

\* C11 witness: a returned dict of two tasks, one completed and one pending
C11_Witness ==
    /\ Returned
    /\ stats.total = 2
    /\ stats.completed = 1
    /\ stats.pending = 1

\* C12: the overdue count is the number of tasks that are not completed and
\* whose due date is strictly before the instant the task was evaluated at;
\* each of them is counted once in pending too; a completed task, a task due
\* at or after that instant and a task without a due date add nothing.
C12_OverdueCountsOpenPastDue ==
    /\ stats.overdue =
          Cardinality({i \in Counted : /\ OpenTask(i)
                                       /\ tasks[i].due_date.kind = "ms"
                                       /\ tasks[i].due_date.ms < read_at[i]})
    /\ stats.overdue <= stats.pending

\* C12 witness: a returned dict with one overdue task, the other task being
\* open and due exactly at the instant it was evaluated at
C12_Witness ==
    /\ Returned
    /\ stats.overdue = 1
    /\ stats.pending = 2
    /\ \E i \in Counted : /\ OpenTask(i)
                          /\ tasks[i].due_date.kind = "ms"
                          /\ tasks[i].due_date.ms = read_at[i]

\* The (task, assignee position) pairs among the counted tasks that name u
PairsOf(u) ==
    UNION {{<<i, j>> : j \in {j \in DOMAIN tasks[i].assignees.list :
                                 tasks[i].assignees.list[j] = u}} : i \in Counted}

\* C13: a task with zero or missing assignees adds exactly 1 to unassigned
\* and creates or changes no per-user bucket; a task with an assignee never
\* adds to unassigned. (So unassigned is the number of tasks without
\* assignee, and every bucket's total is the number of times its user is
\* assigned.)
C13_UnassignedCountsTasksWithoutAssignee ==
    /\ stats.unassigned =
          Cardinality({i \in Counted : Len(tasks[i].assignees.list) = 0})
    /\ \A k \in DOMAIN stats.by_user :
          /\ stats.by_user[k].total = Cardinality(PairsOf(stats.by_user[k].username))
          /\ stats.by_user[k].total >= 1

\* C13 witness: a returned dict that counted a task with an empty assignee
\* list and a task with two assignees
C13_Witness ==
    /\ Returned
    /\ stats.unassigned = 1
    /\ Len(stats.by_user) = 2
    /\ \E i \in Counted : tasks[i].assignees.present /\ tasks[i].assignees.list = <<>>

\* A stats dict with its clock-dependent counts blanked
StatsWithoutOverdue(s) ==
    [s EXCEPT !.overdue = 0,
              !.by_user = [k \in DOMAIN s.by_user |->
                             [s.by_user[k] EXCEPT !.overdue = 0]]]

\* No task's due date was passed between the first clock reading and now
NoDueDatePassed ==
    \A i \in DOMAIN tasks :
       check_overdue(tasks[i].due_date, Now0) = check_overdue(tasks[i].due_date, now)

\* C15 as stated: two calls on the same unchanged list return identical
\* statistics.
C15_Original_SameStatsTwice == (runs = 2) => stats = stats1

\* C15 amended: two calls on the same unchanged list return statistics that
\* are identical in every count but the overdue ones, and identical in those
\* too when no due date was passed by the clock meanwhile; no call modifies
\* the task list.
C15_SameStatsTwiceUnlessDuePassed ==
    /\ [](runs = 2 => /\ StatsWithoutOverdue(stats) = StatsWithoutOverdue(stats1)
                      /\ NoDueDatePassed => stats = stats1)
    /\ [][tasks' = tasks]_vars

\* C15 witness: two calls have returned the same dict, with overdue tasks
\* and per-user buckets in it, while the clock moved
C15_Witness ==
    /\ runs = 2
    /\ stats = stats1
    /\ stats.overdue >= 1
    /\ Len(stats.by_user) >= 1
    /\ now > Now0

----------------------------------------------------------------------------
(* Claims about the report renderers (checked under SpecReport) *)

\* The bucket of the user a rendered row is about
BucketOfRow(row) == stats.by_user[BucketIndex(stats.by_user, row.username)]

\* The rows are the users, each once, in descending order of completion
\* ratio, users of equal ratio in the order of the statistics
Ranked(rows) ==
    /\ Len(rows) = Len(stats.by_user)
    /\ \A k \in DOMAIN stats.by_user :
          \E i \in DOMAIN rows : rows[i].username = stats.by_user[k].username
    /\ \A i, j \in DOMAIN rows :
          i < j =>
             /\ ~KeyGreater(BucketOfRow(rows[j]), BucketOfRow(rows[i]))
             /\ ~KeyGreater(BucketOfRow(rows[i]), BucketOfRow(rows[j]))
                   => BucketIndex(stats.by_user, rows[i].username)
                        < BucketIndex(stats.by_user, rows[j].username)

\* C14: both renderers list the users in descending order of completion
\* ratio (completed/total, 0 when total is 0), users of equal ratio in their
\* input order; so a 100%-complete user comes before a 50%-complete one.
C14_RankingDescendingAndStable ==
    /\ report.text # <<>> => Ranked(report.text)
    /\ report.html # <<>> => Ranked(report.html)

\* C14 witness: both reports rendered from statistics whose first user is
\* 50% complete and whose second is 100% complete; the second is listed first
C14_Witness ==
    /\ Len(stats.by_user) = 2
    /\ stats.by_user[1].completed * 2 = stats.by_user[1].total
    /\ stats.by_user[1].total > 0
    /\ stats.by_user[2].completed = stats.by_user[2].total
    /\ stats.by_user[2].total > 0
    /\ report.text # <<>> /\ report.text[1].username = stats.by_user[2].username
    /\ report.html # <<>> /\ report.html[1].username = stats.by_user[2].username

\* The tier the thresholds give for p = 100 * completed / total
TierOfCounts(completed, total) ==
    IF total = 0 THEN "poor"
    ELSE IF 100 * completed >= 90 * total THEN "top"
    ELSE IF 100 * completed >= 70 * total THEN "good"
    ELSE IF 100 * completed >= 50 * total THEN "warning"
    ELSE "poor"

TierOfIcon(icon) ==
    CASE icon = "star" -> "top" [] icon = "check" -> "good"
      [] icon = "warning" -> "warning" [] icon = "red" -> "poor"
      [] OTHER -> "no tier"

TierOfClass(class) ==
    CASE class = "excellent" -> "top" [] class = "good" -> "good"
      [] class = "average" -> "warning" [] class = "poor" -> "poor"
      [] OTHER -> "no tier"

\* C16: the renderers choose a user's tier from p = 100*completed/total by
\* fixed thresholds: top for p >= 90, good for 70 <= p < 90, warning for
\* 50 <= p < 70, poor for p < 50 and for total = 0; one tier per user, the
\* same in the plain-text and the HTML report.
C16_TierByThresholds ==
    /\ \A i \in DOMAIN report.text :
          TierOfIcon(report.text[i].icon)
             = TierOfCounts(BucketOfRow(report.text[i]).completed,
                            BucketOfRow(report.text[i]).total)
    /\ \A i \in DOMAIN report.html :
          /\ TierOfClass(report.html[i].class)
                = TierOfCounts(BucketOfRow(report.html[i]).completed,
                               BucketOfRow(report.html[i]).total)
          /\ TierOfIcon(report.html[i].icon) = TierOfClass(report.html[i].class)
    /\ \A i \in DOMAIN report.text : \A j \in DOMAIN report.html :
          report.text[i].username = report.html[j].username
             => TierOfIcon(report.text[i].icon) = TierOfClass(report.html[j].class)

\* C16 witness: both reports rendered for a user at exactly 90% (top) and a
\* user at 60% (warning)
C16_Witness ==
    /\ report.text # <<>>
    /\ report.html # <<>>
    /\ \E i, j \in DOMAIN report.html :
          /\ BucketOfRow(report.html[i]).completed * 10 = BucketOfRow(report.html[i]).total * 9
          /\ report.html[i].class = "excellent"
          /\ BucketOfRow(report.html[j]).completed * 10 = BucketOfRow(report.html[j]).total * 6
          /\ BucketOfRow(report.html[j]).total > 0
          /\ report.html[j].class = "average"

----------------------------------------------------------------------------
(* Claims about the handler's answer (C17 under Spec, C18 under SpecRaw) *)

\* C17: clickup_webhook answers 200 whatever its outbound calls end in: the
\* handler never answers anything else, it always gets to its answer, and
\* the answer is 200 also after a failed initial fetch and a failed re-fetch.
\* (Sends and audit appends run in threads whose outcome the handler never
\* receives.)
C17_AcknowledgesWhateverOutboundCallsDo ==
    /\ response \in {0, 200}
    /\ hpc = "done" <=> response = 200
    /\ ~ENABLED Next => hpc = "done"

\* C17 witness: the handler has answered 200 after a failed re-fetch, a
\* notification and an audit append
C17_Witness ==
    /\ hpc = "done"
    /\ response = 200
    /\ \E i \in DOMAIN calls : calls[i].op = "fetch" /\ calls[i].variant = "failed"
    /\ \E i \in DOMAIN calls : calls[i].op = "send"
    /\ \E i \in DOMAIN calls : calls[i].op = "backup"

\* C18: an error raised on one history item of a taskUpdated event is caught
\* for that item only: the handler still answers 200 and every well-formed
\* status, assignee or due-date item of the event is notified.
C18_ItemErrorCaughtPerItem ==
    (hpc = "done" /\ event = "taskUpdated" /\ InitialFetchOk) =>
       /\ response = 200
       /\ \A j \in DOMAIN history_items :
             (history_items[j].field \in MainFields
                 /\ history_items[j].status # NullStatus)
                => \E i \in DOMAIN calls : calls[i].op = "send" /\ calls[i].item = j

----------------------------------------------------------------------------
(* Claims about retries and the cache (C19 under SpecSend, C20 under       *)
(* SpecCache)                                                              *)

\* C19: nothing is retried and the dispatcher does not deduplicate: at any
\* moment the attempts made are one per thread that has made its request,
\* never more for a destination than chat_ids lists it; when everything has
\* come to rest every element of chat_ids has had exactly one attempt
\* (a destination listed k times: k attempts), failed ones included; and a
\* get_task_info call that fails has made its one request and returns None.
C19_OneAttemptPerElementNoRetry ==
    /\ Len(attempts) = Cardinality({k \in DOMAIN inner : inner[k] \in {"posting", "dead"}})
    /\ \A c \in Range(chat_ids) : Count(c, attempts) <= Count(c, chat_ids)
    /\ (mpc = "returned" /\ ~ENABLED NextSend) =>
          \A c \in Range(chat_ids) \cup Range(attempts) :
             Count(c, attempts) = Count(c, chat_ids)
    /\ \A f \in BOOLEAN : \A r \in get_task_info(f) :
          /\ r.via \in {"api", "cache"}
          /\ ~r.ok => r.via = "api"

\* C19 witness: everything is at rest after a call that listed one
\* destination twice; it got two attempts, the first of which failed
C19_Witness ==
    /\ mpc = "returned"
    /\ ~ENABLED NextSend
    /\ Len(chat_ids) = 2
    /\ chat_ids[1] = chat_ids[2]
    /\ attempts = chat_ids
    /\ SendFailed(1)

\* C20: with the cache disabled get_task_info never reads and never writes
\* the cache: the cache stays empty after any sequence of calls and every
\* call makes a request to the task API (and returns what that request gave).
C20_DisabledCacheUntouched ==
    ~CACHE_ENABLED =>
       /\ task_cache = NoCache
       /\ \A i \in DOMAIN calls : calls[i].op = "fetch" /\ calls[i].kind = "api"

\* C20 witness: cache disabled, a successful call followed at the same
\* instant by a call without force_refresh, which made a request again
C20_Witness ==
    /\ ~CACHE_ENABLED
    /\ Len(calls) >= 2
    /\ calls[1].variant = "ok"
    /\ ~calls[2].force
    /\ calls[2].at = calls[1].at
    /\ calls[2].kind = "api"

----------------------------------------------------------------------------
(* Claims about the handler's dispatch (checked under Spec) *)

\* Every task fetch made so far returned a record
AllFetchesOk == \A i \in FetchesAt : calls[i].variant = "ok"

\* The notifications dispatched for history item j
SendsFor(j) == {i \in SendsAt : calls[i].item = j}

\* C21: with every task fetch succeeding, taskCreated, taskDeleted and
\* taskCommentPosted each dispatch exactly one notification; taskUpdated
\* dispatches exactly one notification per history item whose field is
\* status, assignee_add, assignee_rem, due_date, tag_added or tag_removed and
\* none for an item of another field; any other event kind dispatches none.
C21_DispatchByEventKind ==
    (hpc = "done" /\ AllFetchesOk) =>
       CASE event \in {"taskCreated", "taskDeleted", "taskCommentPosted"} ->
               /\ Cardinality(SendsAt) = 1
               /\ \A i \in SendsAt : calls[i].kind = event
         [] event = "taskUpdated" ->
               /\ \A i \in SendsAt : calls[i].item \in DOMAIN history_items
               /\ \A j \in DOMAIN history_items :
                     Cardinality(SendsFor(j)) =
                        IF history_items[j].field \in
                              {"status", "assignee_add", "assignee_rem", "due_date",
                               "tag_added", "tag_removed"}
                        THEN 1 ELSE 0
         [] OTHER -> SendsAt = {}

\* C21 witness: a taskUpdated event with a due_date item and an item of
\* another field (priority) has been handled: one notification
C21_Witness ==
    /\ UpdatedDone
    /\ AllFetchesOk
    /\ history_items = <<Item("priority", <<>>), Item("due_date", <<>>)>>
    /\ Cardinality(SendsAt) = 1
    /\ SendsFor(2) # {}

\* C24: when the initial task fetch fails the handler dispatches no
\* notification, makes no backup append and no further fetch, and answers
\* 200, whatever the event kind: the failed fetch stays its only outbound
\* call and the handler is done at once.
C24_FailedInitialFetchEndsHandler ==
    (Len(calls) >= 1 /\ calls[1].variant = "failed") =>
       /\ Len(calls) = 1
       /\ hpc = "done"
       /\ response = 200

\* C24 witness: the initial fetch of a taskUpdated event with a tag_added
\* and a done status item has failed
C24_Witness ==
    /\ event = "taskUpdated"
    /\ history_items = <<Item("tag_added", <<>>), Item("status", WORD_done)>>
    /\ Len(calls) = 1
    /\ calls[1].variant = "failed"
    /\ response = 200

\* C25: within one taskUpdated event every tag_added and tag_removed item is
\* handled before the notification of any status, assignee_add,
\* assignee_rem or due_date item is dispatched, whatever the order of the
\* items; within each of the two groups the dispatch order is the order of
\* history_items.
C25_TagItemsNotifiedFirst ==
    \A b \in SendsAt :
       /\ calls[b].item \in DOMAIN history_items
             => \A a \in SendsAt :
                   (/\ calls[a].item \in DOMAIN history_items
                    /\ (history_items[calls[a].item].field \in {"tag_added", "tag_removed"})
                         = (history_items[calls[b].item].field \in {"tag_added", "tag_removed"})
                    /\ calls[a].item < calls[b].item) => a < b
       /\ calls[b].kind \in {"completed", "status_changed", "assignee_add",
                             "assignee_rem", "due_date"}
             => \A j \in DOMAIN history_items :
                   history_items[j].field \in {"tag_added", "tag_removed"}
                      => \E a \in DOMAIN calls : a < b /\ calls[a].item = j

\* C25 witness: a status item listed before a tag_removed item; the tag
\* notification was dispatched first
C25_Witness ==
    /\ UpdatedDone
    /\ history_items = <<Item("status", WORD_in_progress), Item("tag_removed", <<>>)>>
    /\ Cardinality(SendsAt) = 2
    /\ \E a \in SendsFor(2) : \E b \in SendsFor(1) : a < b

\* The tag_added items whose re-fetch failed
RefetchFailedFor ==
    {j \in DOMAIN history_items :
        \E i \in FetchesAt : calls[i].item = j /\ calls[i].variant = "failed"}

\* C26: when the re-fetch made for a tag_added item fails, no notification
\* is dispatched for that item, every other item of the event is still
\* processed (tag_removed, status, assignee and due-date items are notified
\* to the destinations computed from the initial fetch, tag_added items get
\* their own re-fetch), and the handler answers 200.
C26_FailedRefetchSkipsOnlyItsItem ==
    (UpdatedDone /\ RefetchFailedFor # {}) =>
       /\ response = 200
       /\ \A j \in RefetchFailedFor : SendsFor(j) = {}
       /\ \A j \in DOMAIN history_items :
             /\ history_items[j].field \in
                   {"tag_removed", "status", "assignee_add", "assignee_rem", "due_date"}
                   => /\ Cardinality(SendsFor(j)) = 1
                      /\ \A i \in SendsFor(j) : calls[i].to = target_chat_ids
             /\ history_items[j].field = "tag_added"
                   => Cardinality({i \in FetchesAt : calls[i].item = j}) = 1

\* C26 witness: the re-fetch of the first item failed, the done status item
\* after it was notified and backed up
C26_Witness ==
    /\ UpdatedDone
    /\ history_items = <<Item("tag_added", <<>>), Item("status", WORD_done)>>
    /\ RefetchFailedFor = {1}
    /\ Cardinality(SendsFor(2)) = 1
    /\ Cardinality(BackupsAt) = 1

----------------------------------------------------------------------------
(* Claims about the enabled cache (checked under SpecCache) *)

\* The calls before call i that stored a record: successful requests
StoresBefore(i) ==
    {j \in 1..(i - 1) : calls[j].kind = "api" /\ calls[j].variant = "ok"}

\* The latest element of a non-empty set of call indices
LatestOf(S) == CHOOSE j \in S : \A k \in S : k <= j

\* C28: with the cache enabled a call is answered from the cache, without a
\* request, only when force_refresh is false and the entry was stored less
\* than 60 seconds before (and then it is); with force_refresh true, an entry
\* aged 60 seconds or more, or no entry, a request is made; a successful
\* request replaces the entry with the fresh record and the current time; a
\* failed request leaves the cache as it was.
C28_CacheServesFreshEntriesOnly ==
    CACHE_ENABLED =>
       /\ \A i \in DOMAIN calls :
             LET fresh == /\ StoresBefore(i) # {}
                          /\ calls[i].at - calls[LatestOf(StoresBefore(i))].at < 60 * 1000
             IN /\ calls[i].kind = "cache" <=> (~calls[i].force /\ fresh)
                /\ calls[i].kind = "cache" =>
                      /\ calls[i].variant = "ok"
                      /\ calls[i].seen = calls[LatestOf(StoresBefore(i))].seen
       /\ LET stores == StoresBefore(Len(calls) + 1)
          IN IF stores = {} THEN task_cache = NoCache
             ELSE /\ task_cache.present
                  /\ task_cache.time = calls[LatestOf(stores)].at
                  /\ task_cache.data.tags = calls[LatestOf(stores)].seen

\* C28 witness: a record is stored, served from the cache 30 s later, and
\* requested again 60 s after it was stored, all without force_refresh;
\* that last request failed and the entry is still the first one
C28_Witness ==
    /\ CACHE_ENABLED
    /\ Len(calls) = 3
    /\ \A i \in DOMAIN calls : ~calls[i].force
    /\ calls[1].kind = "api" /\ calls[1].variant = "ok"
    /\ calls[2].kind = "cache" /\ calls[2].at - calls[1].at = 30 * 1000
    /\ calls[3].kind = "api" /\ calls[3].at - calls[1].at = 60 * 1000
    /\ calls[3].variant = "failed"
    /\ task_cache.time = calls[1].at

----------------------------------------------------------------------------
(* More claims about the statistics (checked under SpecStats) *)

\* The number of (task, assignee) pairs among the counted tasks
AssigneePairs ==
    UNION {{<<i, j>> : j \in DOMAIN tasks[i].assignees.list} : i \in Counted}

\* C30: in_progress <= pending, overdue <= pending, unassigned <= total, the
\* four per-priority counts sum to at most total; every per-user bucket has
\* completed + pending = total, in_progress <= pending and overdue <=
\* pending; the per-user totals sum to the number of (task, assignee) pairs.
C30_CountsBoundedAndBucketsConsistent ==
    /\ stats.in_progress <= stats.pending
    /\ stats.overdue <= stats.pending
    /\ stats.unassigned <= stats.total
    /\ stats.by_priority.urgent + stats.by_priority.high
         + stats.by_priority.normal + stats.by_priority.low <= stats.total
    /\ \A k \in DOMAIN stats.by_user :
          /\ stats.by_user[k].completed + stats.by_user[k].pending = stats.by_user[k].total
          /\ stats.by_user[k].in_progress <= stats.by_user[k].pending
          /\ stats.by_user[k].overdue <= stats.by_user[k].pending
    /\ SumOver(stats.by_user, "total") = Cardinality(AssigneePairs)

\* C30 witness: a returned dict that counted a task with two assignees and a
\* task with one, in progress and overdue tasks among them
C30_Witness ==
    /\ Returned
    /\ Cardinality(AssigneePairs) = 3
    /\ Len(stats.by_user) = 2
    /\ stats.in_progress >= 1
    /\ \E k \in DOMAIN stats.by_user : stats.by_user[k].overdue >= 1

----------------------------------------------------------------------------
(* Claims about the scheduler endpoints (checked under SpecTrigger) *)

\* The request has been answered
Answered == hpc = "done"

\* The positions in the log of the calls of operation op
CallsOf(op) == {i \in DOMAIN calls : calls[i].op = op}

\* C22: trigger_weekly_report answers 200 only when the weekly report was
\* generated and was sent to the destinations, and 500 when generation
\* failed or the report could not be sent. (The report counts as sent here
\* as soon as one destination accepted it.)
C22_SuccessOnlyWhenGeneratedAndSent ==
    (event.route = WeeklyRoute /\ event.method = "GET" /\ Answered) =>
       IF \E i \in CallsOf("document") : calls[i].variant = "200"
       THEN response = 200
       ELSE response = 500

\* The Vietnamese calendar day instant t falls in, counted from the epoch
VnDay(t) == (t + 7 * 3600 * 1000) \div (24 * 3600 * 1000)

\* Task i is open and due on the Vietnamese calendar day after today's
DueTomorrowAndOpen(i) ==
    /\ ~(tasks[i].status.present /\ IsDone(tasks[i].status.status))
    /\ tasks[i].due_date.kind = "ms"
    /\ VnDay(tasks[i].due_date.ms) = VnDay(now) + 1

\* The warnings dispatched for task i
WarningsFor(i) ==
    {c \in CallsOf("send") : calls[c].item = i /\ calls[c].kind = "warning"}

\* C23: trigger_deadline_warning dispatches a warning for a task exactly
\* when the task is not completed and its due date falls on tomorrow's
\* Vietnamese calendar day; tasks due today, later than tomorrow, overdue,
\* completed or without due date get none; a qualifying task gets exactly
\* one dispatch per invocation.
C23_WarnsExactlyOpenTasksDueTomorrow ==
    (event.route = DeadlineRoute /\ event.method = "GET") =>
       /\ \A c \in CallsOf("send") : c \in WarningsFor(calls[c].item)
       /\ \A i \in DOMAIN tasks :
             /\ Cardinality(WarningsFor(i)) <= 1
             /\ WarningsFor(i) # {} => DueTomorrowAndOpen(i)
             /\ (Answered \/ hi > i) =>
                   (DueTomorrowAndOpen(i) => Cardinality(WarningsFor(i)) = 1)

\* C23 witness: at 09:00 a task due in tomorrow's last millisecond was
\* warned about and an open task due one millisecond later was not
C23_Witness ==
    /\ event.route = DeadlineRoute /\ event.method = "GET" /\ Answered
    /\ now = Now0 + 2 * HourMs
    /\ Len(tasks) = 2
    /\ tasks[1].due_date = Due(Midnight1 + DayMs - 1) /\ WarningsFor(1) # {}
    /\ tasks[2].due_date = Due(Midnight1 + DayMs) /\ WarningsFor(2) = {}
    /\ tasks[2].status = StatusInfo(WORD_to_do)

\* C29: a HEAD request to any trigger endpoint is answered 200 without a
\* query of the task API, a report generated or a message dispatched; only
\* GET generates and broadcasts; a GET of the morning, noon or evening
\* trigger dispatches the report once to each distinct configured
\* destination.
C29_HeadDoesNothingGetBroadcastsOnce ==
    /\ event.method = "HEAD" =>
          /\ calls = <<>>
          /\ report = NoReport
          /\ tasks = <<>>
          /\ response = IF Answered THEN 200 ELSE 0
    /\ (event.method = "GET" /\ event.route \in DailyRoutes /\ Answered) =>
          /\ response = 200
          /\ report # NoReport
          /\ Cardinality(CallsOf("send")) = 1
          /\ \A c \in CallsOf("send") :
                /\ Range(calls[c].to)
                     = {ContentChat, DevChat, AdminChat, CHAT_ID}
                /\ \A x \in Range(calls[c].to) : Count(x, calls[c].to) = 1

\* C29 witness: the default chat is the content group's chat and a GET of
\* the noon trigger has dispatched the report to three destinations
C29_Witness ==
    /\ event = [route |-> "trigger_noon_report", method |-> "GET"]
    /\ Answered
    /\ CHAT_ID = ContentChat
    /\ \E c \in CallsOf("send") : Len(calls[c].to) = 3
    /\ \E c \in CallsOf("list") : calls[c].variant = "ok"

====
